---- MODULE Spec2Model ----
(***************************************************************************)
(* A model of the SCORM analyzer / repair server (src/server.js).          *)
(*                                                                         *)
(* A directory tree on disk and the entry list of a zip archive are both   *)
(* a sequence of files, each a record [path, xml, html, pats]: path is the *)
(* sequence of path components below the root of the tree, and the order   *)
(* of the sequence is the order in which a directory listing (or the       *)
(* archive's entry table) yields the files.  xml is the text of a manifest *)
(* document, html the text of a markup document as a sequence of tokens,   *)
(* pats the set of SCORM call substrings a script file contains.           *)
(***************************************************************************)
EXTENDS Integers, Sequences, FiniteSets, TLC

VARIABLES
    tree,       \* SpecLaunch: the directory tree findLaunchFile is applied to
    found,      \* SpecLaunch: what findLaunchFile returned
    lpc,        \* SpecLaunch: "start" | "done"
    zipIn,      \* the archive at zipPath: [readable, files]
    req,        \* which operation the caller asked for: "repair" | "update"
    run,        \* "first": the caller's archive; "second": the first run's output
    rep,        \* the repairSCORM invocation: its position, locals and result
    tmpDirs,    \* the temporary directories on disk: name -> tree
    outZip,     \* the file at outputZipPath: [exists, files, writer]
    firstRun,   \* what the first run of repairSCORM returned
    upd,        \* the createUpdatedZip invocation: its position and result
    updatedZip, \* the file createUpdatedZip writes in updated/
    analysis,   \* the analyzeSCORM invocation: its position and result
    inj,        \* how often each injector has walked the tree
    batch,      \* the batch request being served: its position, list and results
    sessions,   \* player_sessions/: session id -> tree
    resp,       \* the response to the last request on a player session
    shim,       \* the API shim in the content's window: CMI data, flags, messages
    store,      \* repaired/, updated/ and the application's own files under __dirname
    page,       \* the page in the player's frame: shim instances, API members, localStorage
    tracker     \* the event tracker of the page: wrapped API objects, polling, events of a call

launchVars == <<tree, found, lpc>>
repairVars == <<zipIn, req, run, rep, tmpDirs, outZip, firstRun, upd, updatedZip>>
serverVars == <<inj, batch, sessions, resp, shim, store, page, tracker>>
vars == <<tree, found, lpc, zipIn, req, run, rep, tmpDirs, outZip, firstRun, upd,
          updatedZip, analysis, inj, batch, sessions, resp, shim,
          store,
          page,
          tracker>>

-----------------------------------------------------------------------------
(* Bounds of the model *)

\* most files in a tree handed to findLaunchFile
MaxTreeFiles == 3

\* most HTML files in an archive handed to repairSCORM
MaxHtmlFiles == 2

\* most script files in an archive handed to analyzeSCORM
MaxJsFiles == 11

\* most entries in a folder handed to a batch endpoint
MaxFolderEntries == 2

\* most requests on player sessions in one run of the server
MaxRequests == 3

\* most calls of the API the content makes in one page
MaxCalls == 3

\* most times each injector walks the same tree
MaxInjectRuns == 2

\* most copies of the shim's body that run in one page
MaxShims == 2

\* most pages the player's frame shows, one after the other
MaxLoads == 2

\* most calls of the API the content makes in the pages the frame shows
MaxPageCalls == 2

\* most calls of API methods while the tracker is watched
MaxTrackedCalls == 1

-----------------------------------------------------------------------------
(* Strings: file names, case folding, the HTML extension test *)

\* the value of a path variable that holds JavaScript's null
Null == <<>>

\* String.prototype.toLowerCase on the file names of the model
toLowerCase(n) ==
    CASE n = "IMSMANIFEST.XML" -> "imsmanifest.xml"
      [] n = "INDEX.HTML" -> "index.html"
      [] n = "Story.HTM" -> "story.htm"
      [] n = "PAGE.HTML" -> "page.html"
      [] n = "B.ZIP" -> "b.zip"
      [] n = "C_REPAIRED.ZIP" -> "c_repaired.zip"
      [] n = "B.ZIP_repaired.zip" -> "b.zip_repaired.zip"
      [] n = "C_REPAIRED.ZIP_repaired.zip" -> "c_repaired.zip_repaired.zip"
      [] OTHER -> n

LAUNCH_CANDIDATES ==
    << "index_lms.html", "index_lms.htm",
       "story.html", "story.htm",
       "index.html", "index.htm",
       "launch.html", "launch.htm",
       "default.html", "default.htm" >>

\* the lower-case names of the model that end in .html or .htm
HtmlLowerNames ==
    { LAUNCH_CANDIDATES[i] : i \in DOMAIN LAUNCH_CANDIDATES }
        \cup { "page.html", "intro.htm", "q&a.html" }

\* e.name.match(/\.html?$/i)
matchesHtml(n) == toLowerCase(n) \in HtmlLowerNames

Last(s) == s[Len(s)]
IsPrefix(d, p) == Len(d) <= Len(p) /\ SubSeq(p, 1, Len(d)) = d

-----------------------------------------------------------------------------
(* Directory listings and the recursive searches *)

RECURSIVE readdirFrom(_, _, _, _)
readdirFrom(fs, dir, i, seen) ==
    IF i > Len(fs) THEN << >>
    ELSE LET p == fs[i].path IN
         IF Len(p) > Len(dir) /\ IsPrefix(dir, p) /\ p[Len(dir) + 1] \notin seen
         THEN << [name |-> p[Len(dir) + 1], isDirectory |-> Len(p) > Len(dir) + 1] >>
                  \o readdirFrom(fs, dir, i + 1, seen \cup {p[Len(dir) + 1]})
         ELSE readdirFrom(fs, dir, i + 1, seen)

\* fs.readdirSync(dir, { withFileTypes: true }): the entries of one directory
readdirSync(fs, dir) == readdirFrom(fs, dir, 1, {})

RECURSIVE findFileFrom(_, _, _, _)
findFileFrom(fs, dir, filename, i) ==
    LET entries == readdirSync(fs, dir) IN
    IF i > Len(entries) THEN Null
    ELSE LET e == entries[i]
             full == Append(dir, e.name)
         IN IF e.isDirectory
            THEN LET sub == findFileFrom(fs, full, filename, 1)
                 IN IF sub # Null THEN sub
                    ELSE findFileFrom(fs, dir, filename, i + 1)
            ELSE IF toLowerCase(e.name) = toLowerCase(filename) THEN full
                 ELSE findFileFrom(fs, dir, filename, i + 1)

findFile(fs, dir, filename) == findFileFrom(fs, dir, filename, 1)

RECURSIVE findFirstHtmlFrom(_, _, _)
findFirstHtmlFrom(fs, dir, i) ==
    LET entries == readdirSync(fs, dir) IN
    IF i > Len(entries) THEN Null
    ELSE LET e == entries[i]
             full == Append(dir, e.name)
         IN IF e.isDirectory
            THEN LET sub == findFirstHtmlFrom(fs, full, 1)
                 IN IF sub # Null THEN sub
                    ELSE findFirstHtmlFrom(fs, dir, i + 1)
            ELSE IF matchesHtml(e.name) THEN full
                 ELSE findFirstHtmlFrom(fs, dir, i + 1)

findFirstHtml(fs, dir) == findFirstHtmlFrom(fs, dir, 1)

RECURSIVE findCandidateFrom(_, _, _)
findCandidateFrom(fs, dir, k) ==
    IF k > Len(LAUNCH_CANDIDATES) THEN findFirstHtml(fs, dir)
    ELSE LET hit == findFile(fs, dir, LAUNCH_CANDIDATES[k])
         IN IF hit # Null THEN hit ELSE findCandidateFrom(fs, dir, k + 1)

\* a launch search that takes the first HTML file of the walk before it
\* tries the candidate names
findLaunchFile_walkFirst(fs, dir) ==
    LET first == findFirstHtml(fs, dir)
    IN IF first # Null THEN first ELSE findCandidateFrom(fs, dir, 1)

findLaunchFile(fs, dir) == findCandidateFrom(fs, dir, 1)

RECURSIVE addDirFrom(_, _, _)
addDirFrom(fs, dir, i) ==
    LET entries == readdirSync(fs, dir) IN
    IF i > Len(entries) THEN << >>
    ELSE LET e == entries[i]
             full == Append(dir, e.name)
         IN (IF e.isDirectory
             THEN addDirFrom(fs, full, 1)
             ELSE << CHOOSE f \in { fs[j] : j \in DOMAIN fs } : f.path = full >>)
            \o addDirFrom(fs, dir, i + 1)

\* addDirToZip(zip, baseDir, baseDir): the entries of the new archive
addDirToZip(fs) == addDirFrom(fs, << >>, 1)

-----------------------------------------------------------------------------
(* File contents and the trees the searches are tried on *)

\* a string that holds a path: abs is TRUE when it starts with the absolute
\* path of the temporary directory; comps are the components that follow
Href(abs, comps) == [abs |-> abs, comps |-> comps]
\* null, undefined or the empty string
NoHref == Href(FALSE, << >>)

\* what xml2js makes of a document: root is "manifest" when result.manifest
\* is an object, "empty" when it is the empty string (<manifest/>), "other"
\* when the root element has another name (result.manifest is undefined)
Doc(root, ns, metadata, resources, resource) ==
    [root |-> root, ns |-> ns, metadata |-> metadata, resources |-> resources,
     resource |-> resource]
NoDoc == Doc("other", FALSE, "absent", "absent", << >>)

Resource(attrs, scormtype, href) ==
    [attrs |-> attrs, scormtype |-> scormtype, href |-> href]

\* the text of a document: broken when it is not well-formed as written,
\* rawAttrs when its attribute values were put in without escaping
XmlText(broken, rawAttrs, doc) == [broken |-> broken, rawAttrs |-> rawAttrs, doc |-> doc]
NoXml == XmlText(TRUE, FALSE, NoDoc)

\* an archive AdmZip cannot open
Unreadable == [readable |-> FALSE, files |-> << >>]

PlainFile(p) == [path |-> p, xml |-> NoXml, html |-> << >>, pats |-> {}]
XmlFile(p, x) == [path |-> p, xml |-> x, html |-> << >>, pats |-> {}]
HtmlFile(p, h) == [path |-> p, xml |-> NoXml, html |-> h, pats |-> {}]
ScriptFile(p, c) == [path |-> p, xml |-> NoXml, html |-> << >>, pats |-> c]

TreeDirs == { << >>, <<"a">>, <<"a", "b">> }
TreeNames == { "index_lms.htm", "INDEX.HTML", "index.htm", "page.html",
               "readme.txt" }
TreePaths == { Append(d, n) : d \in TreeDirs, n \in TreeNames }

RECURSIVE SeqsUpTo(_, _)
\* the sequences of at most n distinct elements of S
SeqsUpTo(S, n) ==
    IF n = 0 THEN { << >> }
    ELSE LET shorter == SeqsUpTo(S, n - 1)
         IN shorter \cup { Append(s, x) : s \in { t \in shorter : Len(t) = n - 1 },
                                          x \in S }

Distinct(s) == \A i, j \in DOMAIN s : i # j => s[i] # s[j]

\* t is one of the trees of the model
IsTree(t) ==
    \E s \in SeqsUpTo(TreePaths, MaxTreeFiles) :
        Distinct(s) /\ t = [i \in DOMAIN s |-> PlainFile(s[i])]

-----------------------------------------------------------------------------
(* Paths *)

\* path.dirname
dirname(p) == SubSeq(p, 1, Len(p) - 1)

RECURSIVE normalizeFrom(_, _, _)
normalizeFrom(comps, i, acc) ==
    IF i > Len(comps) THEN acc
    ELSE IF comps[i] = "." THEN normalizeFrom(comps, i + 1, acc)
    ELSE IF comps[i] = ".." /\ acc # << >> /\ Last(acc) # ".."
         THEN normalizeFrom(comps, i + 1, dirname(acc))
    ELSE normalizeFrom(comps, i + 1, Append(acc, comps[i]))

\* the components of os.tmpdir() and of the temporary directory's own name
TmpDirComps == << "tmp", "scorm_repair_" >>

\* path.join(dir, href) for a directory dir of the temporary tree, as a path
\* below the root of that tree: an href that is itself an absolute path is
\* appended as it stands
pathJoin(dir, href) ==
    normalizeFrom(dir \o (IF href.abs THEN TmpDirComps ELSE << >>) \o href.comps,
                  1, << >>)

RECURSIVE commonLen(_, _, _)
commonLen(a, b, i) ==
    IF i < Len(a) /\ i < Len(b) /\ a[i + 1] = b[i + 1]
    THEN commonLen(a, b, i + 1) ELSE i

\* a relative path taken from the root of the tree and not from the directory
\* it is meant to be relative to
pathRelative_fromRoot(from, to) == to

\* path.relative(from, to).replace(/\\/g, '/') for two paths of the tree
pathRelative(from, to) ==
    LET c == commonLen(from, to, 0)
    IN [k \in 1..(Len(from) - c) |-> ".."] \o SubSeq(to, c + 1, Len(to))

\* fs.existsSync: a file or a directory of the tree
existsSync(fs, p) == p = << >> \/ \E i \in DOMAIN fs : IsPrefix(p, fs[i].path)

isFile(fs, p) == \E i \in DOMAIN fs : fs[i].path = p
readFileSync(fs, p) == CHOOSE f \in { fs[j] : j \in DOMAIN fs } : f.path = p

\* fs.writeFileSync: an existing file keeps its place in its directory's
\* listing, a new one is listed last
writeFileSync(fs, file) ==
    IF isFile(fs, file.path)
    THEN [i \in DOMAIN fs |-> IF fs[i].path = file.path THEN file ELSE fs[i]]
    ELSE Append(fs, file)

-----------------------------------------------------------------------------
(* Manifest text: synthesis, parsing, serialization *)

\* file names that hold a character XML reserves (&)
XmlSpecialNames == { "q&a.html" }
HasSpecial(href) == \E i \in DOMAIN href.comps : href.comps[i] \in XmlSpecialNames

\* buildMinimalManifest: the template, with launchFile put into the href
\* attribute as it is
buildMinimalManifest(launchFile) ==
    XmlText(FALSE, TRUE,
            Doc("manifest", TRUE, "full", "list",
                << Resource(TRUE, "sco", launchFile) >>))

\* xml2js parseStringPromise (strict): rejects a document that is not
\* well-formed, among them one with a bare & in an attribute value
parseString(text) ==
    IF text.broken
          \/ (text.rawAttrs
                /\ \E i \in DOMAIN text.doc.resource : HasSpecial(text.doc.resource[i].href))
    THEN [ok |-> FALSE, doc |-> NoDoc]
    ELSE [ok |-> TRUE, doc |-> text.doc]

\* xml2js Builder.buildObject: escapes what it writes
buildObject(doc) == XmlText(FALSE, FALSE, doc)

-----------------------------------------------------------------------------
(* Markup documents and the insertion of a script *)

SHIM_TAG == "<script src=/scorm-api-shim.js></script>"
SHIM_BLOCK == "<script>/* === SCORM API Shim (inlined) === */</script>"
TRACKER_BLOCK == "<script>/* === SCORM Event Tracker (inlined) === */</script>"

\* html.includes(token)
includes(html, token) == \E i \in DOMAIN html : html[i] = token

FirstIndex(html, token) ==
    CHOOSE i \in DOMAIN html : html[i] = token /\ \A j \in 1..(i - 1) : html[j] # token

\* after <head>, else before </head>, else at the start of the document
injectAtHead(html, block) ==
    IF includes(html, "<head>")
    THEN LET i == FirstIndex(html, "<head>")
         IN SubSeq(html, 1, i) \o << block >> \o SubSeq(html, i + 1, Len(html))
    ELSE IF includes(html, "</head>")
    THEN LET i == FirstIndex(html, "</head>")
         IN SubSeq(html, 1, i - 1) \o << block >> \o SubSeq(html, i, Len(html))
    ELSE << block >> \o html

\* a walk that puts the shim into every HTML file, whatever it holds
injectShimIntoDir_unguarded(fs) ==
    [i \in DOMAIN fs |->
        IF matchesHtml(Last(fs[i].path))
        THEN [fs[i] EXCEPT !.html = injectAtHead(@, SHIM_BLOCK)]
        ELSE fs[i]]

\* the walk of injectShimIntoDir over every HTML file of the tree
injectShimIntoDir(fs) ==
    [i \in DOMAIN fs |->
        IF matchesHtml(Last(fs[i].path)) /\ ~includes(fs[i].html, SHIM_BLOCK)
        THEN [fs[i] EXCEPT !.html = injectAtHead(@, SHIM_BLOCK)]
        ELSE fs[i]]

\* the walk of injectTrackerIntoDir over every HTML file of the tree
injectTrackerIntoDir(fs) ==
    [i \in DOMAIN fs |->
        IF matchesHtml(Last(fs[i].path)) /\ ~includes(fs[i].html, TRACKER_BLOCK)
        THEN [fs[i] EXCEPT !.html = injectAtHead(@, TRACKER_BLOCK)]
        ELSE fs[i]]

-----------------------------------------------------------------------------
(* repairSCORM, step by step *)

\* one entry of the repairs list
Fix(kind, target) == [fix |-> kind, target |-> target]

\* launchFile || 'index.html', for a path findLaunchFile returned
orIndexHtml(foundPath) ==
    IF foundPath # Null THEN Href(TRUE, foundPath) ELSE Href(FALSE, <<"index.html">>)

\* Fix 1: find the manifest, or write a minimal one at the root of the tree
findOrCreateManifest(fs) ==
    LET manifestPath == findFile(fs, << >>, "imsmanifest.xml")
    IN IF manifestPath = Null
       THEN LET xml == buildMinimalManifest(orIndexHtml(findLaunchFile(fs, << >>)))
            IN [fs |-> writeFileSync(fs, XmlFile(<<"imsmanifest.xml">>, xml)),
                manifestPath |-> <<"imsmanifest.xml">>,
                manifestXml |-> xml,
                repairs |-> << Fix("created manifest", << >>) >>]
       ELSE [fs |-> fs,
             manifestPath |-> manifestPath,
             manifestXml |-> readFileSync(fs, manifestPath).xml,
             repairs |-> << >>]

\* what the steps after the parse hand to the end of repairSCORM
Steps(threw, fs, written, files, repairs, launchFile) ==
    [threw |-> threw, fs |-> fs, written |-> written, files |-> files,
     repairs |-> repairs, launchFile |-> launchFile]

\* Fix 3 to Fix 6, the serialization of the manifest and the new archive,
\* for a document whose root is a manifest element with content
fixAndPack(fs, manifestPath, doc0, repairs0) ==
    LET mdir == dirname(manifestPath)
        \* Fix 3
        doc3 == [doc0 EXCEPT !.ns = TRUE]
        rep3 == IF doc0.ns THEN repairs0
                ELSE Append(repairs0, Fix("added namespace", << >>))
        \* Fix 4
        doc4 == IF doc3.metadata = "absent" THEN [doc3 EXCEPT !.metadata = "full"]
                ELSE doc3
        rep4 == IF doc3.metadata = "absent"
                THEN Append(rep3, Fix("added metadata", << >>)) ELSE rep3
        \* Fix 5
        hasList == doc4.resources = "list"
        primary == doc4.resource[1]
        foundPath == findLaunchFile(fs, << >>)
        rel == Href(FALSE, pathRelative(mdir, foundPath))
        setType == hasList /\ primary.attrs /\ primary.scormtype = ""
        declared == IF hasList /\ primary.attrs THEN primary.href ELSE NoHref
        broken == declared # NoHref /\ ~existsSync(fs, pathJoin(mdir, declared))
        rewrite == broken /\ foundPath # Null
        newHref == IF foundPath # Null THEN rel ELSE Href(FALSE, <<"index.html">>)
        doc5 == IF hasList
                THEN [doc4 EXCEPT !.resource[1].scormtype = IF setType THEN "sco" ELSE @,
                                  !.resource[1].href = IF rewrite THEN rel ELSE @]
                ELSE [doc4 EXCEPT !.resources = "list",
                                  !.resource = << Resource(TRUE, "sco", newHref) >>]
        rep5a == IF setType THEN Append(rep4, Fix("set scormtype", << >>)) ELSE rep4
        rep5 == IF hasList
                THEN IF rewrite THEN Append(rep5a, Fix("fixed launch file", rel.comps))
                     ELSE rep5a
                ELSE Append(rep4, Fix("created resources", newHref.comps))
        launchFile == IF hasList
                      THEN IF declared = NoHref THEN NoHref
                           ELSE IF broken THEN (IF rewrite THEN rel ELSE NoHref)
                           ELSE declared
                      ELSE newHref
        \* Fix 6
        launchFullPath == pathJoin(mdir, launchFile)
        inject == /\ launchFile # NoHref
                  /\ isFile(fs, launchFullPath)
                  /\ matchesHtml(Last(launchFullPath))
                  /\ ~includes(readFileSync(fs, launchFullPath).html, SHIM_TAG)
        fs6 == IF inject
               THEN writeFileSync(fs, [readFileSync(fs, launchFullPath)
                                         EXCEPT !.html = injectAtHead(@, SHIM_TAG)])
               ELSE fs
        rep6 == IF inject THEN Append(rep5, Fix("injected shim", << >>)) ELSE rep5
        \* serialize, re-zip
        fs7 == writeFileSync(fs6, XmlFile(manifestPath, buildObject(doc5)))
    IN Steps(FALSE, fs7, TRUE, addDirToZip(fs7), rep6, launchFile)

\* the steps after the parse, with each entry put at the head of the repairs
\* list (unshift) and not at its end
repairSteps_unshift(fs, manifestPath, doc, repairs) ==
    IF doc.root # "manifest"
    THEN Steps(TRUE, fs, FALSE, << >>, repairs, NoHref)
    ELSE LET s == fixAndPack(fs, manifestPath, doc, repairs)
         IN [s EXCEPT !.repairs = [i \in DOMAIN @ |-> @[Len(@) + 1 - i]]]

\* the steps after the parse, with the archive written before the manifest
\* is looked at
repairSteps_zipFirst(fs, manifestPath, doc, repairs) ==
    IF doc.root # "manifest"
    THEN Steps(TRUE, fs, TRUE, addDirToZip(fs), repairs, NoHref)
    ELSE fixAndPack(fs, manifestPath, doc, repairs)

\* the steps after the parse: manifest.$ throws a TypeError when
\* manifestObj.manifest is undefined or the empty string
repairSteps(fs, manifestPath, doc, repairs) ==
    IF doc.root # "manifest"
    THEN Steps(TRUE, fs, FALSE, << >>, repairs, NoHref)
    ELSE fixAndPack(fs, manifestPath, doc, repairs)

\* a cleanup that runs at the end of the try block and not in a finally
releaseTmpDir_onSuccess(dirs, name, threw) ==
    IF threw THEN dirs ELSE [d \in DOMAIN dirs \ {name} |-> dirs[d]]

\* finally { fs.rmSync(tmpDir, { recursive: true, force: true }) }
releaseTmpDir(dirs, name, threw) == [d \in DOMAIN dirs \ {name} |-> dirs[d]]

\* mkdir / extractAllTo: the tree now exists under that name
putTmpDir(dirs, name, fs) ==
    [d \in DOMAIN dirs \cup {name} |-> IF d = name THEN fs ELSE dirs[d]]

RepairTmp == IF run = "first" THEN "scorm_repair_1" ELSE "scorm_repair_2"
UpdateTmp == "scorm_updated_1"

NoFile == [exists |-> FALSE, files |-> << >>, writer |-> "none"]

RepIdle ==
    [pc |-> "idle", manifestPath |-> Null, manifestXml |-> NoXml, repairs |-> << >>,
     success |-> FALSE, launchFile |-> NoHref]

UpdIdle == [pc |-> "idle", name |-> "none"]

RepairIdle ==
    /\ run = "first"
    /\ rep = RepIdle
    /\ tmpDirs = << >>
    /\ outZip = NoFile
    /\ firstRun = RepIdle
    /\ upd = UpdIdle
    /\ updatedZip = NoFile

\* repairSCORM leaves by an exception: the finally block has run
RepairThrows(threw) ==
    /\ rep' = [rep EXCEPT !.pc = "thrown"]
    /\ tmpDirs' = releaseTmpDir(tmpDirs, RepairTmp, threw)

\* the end of repairSCORM for what the steps after the parse produced
RepairEnds(steps) ==
    /\ outZip' = IF steps.written
                 THEN [exists |-> TRUE, files |-> steps.files, writer |-> RepairTmp]
                 ELSE outZip
    /\ tmpDirs' = releaseTmpDir(putTmpDir(tmpDirs, RepairTmp, steps.fs), RepairTmp,
                                steps.threw)
    /\ rep' = IF steps.threw
              THEN [rep EXCEPT !.pc = "thrown"]
              ELSE [rep EXCEPT !.pc = "returned", !.success = TRUE,
                               !.repairs = steps.repairs,
                               !.launchFile = steps.launchFile]

\* from the call to the first await: extraction and Fix 1
RepairBegin ==
    /\ req = "repair"
    /\ rep.pc = "idle"
    /\ IF ~zipIn.readable
       THEN RepairThrows(TRUE)
       ELSE LET m == findOrCreateManifest(zipIn.files)
            IN /\ tmpDirs' = putTmpDir(tmpDirs, RepairTmp, m.fs)
               /\ rep' = [rep EXCEPT !.pc = "parsing",
                                     !.manifestPath = m.manifestPath,
                                     !.manifestXml = m.manifestXml,
                                     !.repairs = m.repairs]
    /\ UNCHANGED <<outZip, zipIn, req, run, firstRun, upd, updatedZip, launchVars,
                   analysis, serverVars>>

\* Fix 2: the first parse has settled; on a parse error the manifest is
\* built anew and parsed in turn
RepairParsed ==
    /\ rep.pc = "parsing"
    /\ LET p == parseString(rep.manifestXml)
           fs == tmpDirs[RepairTmp]
       IN IF p.ok
          THEN RepairEnds(repairSteps(fs, rep.manifestPath, p.doc, rep.repairs))
          ELSE /\ rep' = [rep EXCEPT !.pc = "reparsing",
                            !.manifestXml =
                                buildMinimalManifest(orIndexHtml(findLaunchFile(fs, << >>)))]
               /\ UNCHANGED <<tmpDirs, outZip>>
    /\ UNCHANGED <<zipIn, req, run, firstRun, upd, updatedZip, launchVars,
                   analysis, serverVars>>

\* the parse of the rebuilt manifest has settled
RepairReparsed ==
    /\ rep.pc = "reparsing"
    /\ LET p == parseString(rep.manifestXml)
           fs == tmpDirs[RepairTmp]
       IN IF p.ok
          THEN RepairEnds(repairSteps(fs, rep.manifestPath, p.doc,
                                      Append(rep.repairs, Fix("rebuilt manifest", << >>))))
          ELSE RepairThrows(TRUE) /\ UNCHANGED outZip
    /\ UNCHANGED <<zipIn, req, run, firstRun, upd, updatedZip, launchVars,
                   analysis, serverVars>>

\* the caller hands the archive a successful repair wrote to repairSCORM again
RepairAgain ==
    /\ rep.pc = "returned"
    /\ run = "first"
    /\ run' = "second"
    /\ firstRun' = rep
    /\ zipIn' = [readable |-> TRUE, files |-> outZip.files]
    /\ rep' = RepIdle
    /\ UNCHANGED <<req, tmpDirs, outZip, upd, updatedZip, launchVars, analysis,
                   serverVars>>

\* createUpdatedZip, which holds no await: mkdtemp, extraction, both
\* injections, the new archive in updated/, and the finally block
CreateUpdatedZip ==
    /\ req = "update"
    /\ upd.pc = "idle"
    /\ LET made == putTmpDir(tmpDirs, UpdateTmp, << >>)
       IN IF ~zipIn.readable
          THEN /\ tmpDirs' = releaseTmpDir(made, UpdateTmp, TRUE)
               /\ upd' = [upd EXCEPT !.pc = "thrown"]
               /\ UNCHANGED updatedZip
          ELSE LET fs == injectTrackerIntoDir(injectShimIntoDir(zipIn.files))
               IN /\ tmpDirs' = releaseTmpDir(putTmpDir(made, UpdateTmp, fs),
                                              UpdateTmp, FALSE)
                  /\ updatedZip' = [exists |-> TRUE, files |-> addDirToZip(fs),
                                    writer |-> UpdateTmp]
                  /\ upd' = [pc |-> "returned", name |-> "updated.zip"]
    /\ UNCHANGED <<zipIn, req, run, rep, outZip, firstRun, launchVars, analysis,
                   serverVars>>

-----------------------------------------------------------------------------
(* analyzeSCORM *)

\* the number of script files the scan reads
SCAN_LIMIT == 10

\* the lower-case file names of the model that end in imsmanifest.xml
ManifestSuffixNames == { "imsmanifest.xml", "old_imsmanifest.xml" }

\* entry.entryName.toLowerCase().endsWith('imsmanifest.xml')
endsWithManifest(path) == toLowerCase(Last(path)) \in ManifestSuffixNames

ScriptNames ==
    << "s01.js", "s02.js", "s03.js", "s04.js", "s05.js", "s06.js", "s07.js",
       "s08.js", "s09.js", "s10.js", "s11.js", "s12.js", "s13.js" >>

\* entry.entryName.toLowerCase().endsWith('.js')
endsWithJs(path) == \E k \in DOMAIN ScriptNames : toLowerCase(Last(path)) = ScriptNames[k]

\* zipEntries.find(e => e.entryName.toLowerCase().endsWith('imsmanifest.xml')):
\* the index of the first entry that passes, 0 for none
findManifestEntry(entries) ==
    IF \E i \in DOMAIN entries : endsWithManifest(entries[i].path)
    THEN CHOOSE i \in DOMAIN entries :
            /\ endsWithManifest(entries[i].path)
            /\ \A j \in 1..(i - 1) : ~endsWithManifest(entries[j].path)
    ELSE 0

\* a scan that reads every script file
scannedScripts_all(jsFiles) == jsFiles

\* jsFiles.slice(0, 10)
scannedScripts(jsFiles) ==
    SubSeq(jsFiles, 1, IF Len(jsFiles) < SCAN_LIMIT THEN Len(jsFiles) ELSE SCAN_LIMIT)

\* what one script file adds to apiCallsFound, in the order of the tests
callsIn(content) ==
    (IF "cmi.core.lesson_status" \in content \/ "cmi.completion_status" \in content
     THEN << "lesson_status" >> ELSE << >>)
    \o (IF "cmi.suspend_data" \in content THEN << "suspend_data" >> ELSE << >>)
    \o (IF "cmi.location" \in content THEN << "location" >> ELSE << >>)
    \o (IF "API.LMSInitialize" \in content \/ "API_1484_11.Initialize" \in content
        THEN << "LMS_Initialize" >> ELSE << >>)

RECURSIVE apiCallsFrom(_, _)
apiCallsFrom(scripts, i) ==
    IF i > Len(scripts) THEN << >>
    ELSE callsIn(scripts[i].pats) \o apiCallsFrom(scripts, i + 1)

RECURSIVE uniqueFrom(_, _, _)
\* [...new Set(calls)]: each element once, in the order of first appearance
uniqueFrom(calls, i, seen) ==
    IF i > Len(calls) THEN << >>
    ELSE IF calls[i] \in seen THEN uniqueFrom(calls, i + 1, seen)
    ELSE << calls[i] >> \o uniqueFrom(calls, i + 1, seen \cup {calls[i]})

Detail(label, n, calls) == [label |-> label, n |-> n, calls |-> calls]

\* what analyzeSCORM hands back, or threw when the try block was left by an
\* exception; a result without resumeCapable has it FALSE here
Analysis(threw, success, error, hasManifest, resumeCapable, details, version, launchFile) ==
    [threw |-> threw, success |-> success, error |-> error,
     hasManifest |-> hasManifest, resumeCapable |-> resumeCapable,
     details |-> details, version |-> version, launchFile |-> launchFile]

Failed(error) == Analysis(FALSE, FALSE, error, FALSE, FALSE, << >>, "", NoHref)
Raised(error) == Analysis(TRUE, FALSE, error, FALSE, FALSE, << >>, "", NoHref)

\* the part of the try block that follows the parse, for a document whose
\* root is a manifest element
classify(zipEntries, doc) ==
    LET hasVersion == doc.metadata = "full"
        d1 == IF hasVersion THEN << Detail("SCORM Version", 0, << >>) >> ELSE << >>
        hasList == doc.resources = "list"
        scoResources == IF hasList
                        THEN { i \in DOMAIN doc.resource :
                                 doc.resource[i].attrs /\ doc.resource[i].scormtype = "sco" }
                        ELSE {}
        hasSco == scoResources # {}
        d2 == IF hasSco
              THEN << Detail("Found SCO resource(s)", Cardinality(scoResources), << >>),
                      Detail("Package contains SCO resources", 0, << >>) >>
              ELSE << >>
        launchFile == IF hasList /\ doc.resource[1].attrs THEN doc.resource[1].href
                      ELSE NoHref
        jsFiles == SelectSeq(zipEntries, LAMBDA e : endsWithJs(e.path))
        apiCallsFound == apiCallsFrom(scannedScripts(jsFiles), 1)
        hasAPIReferences == \E i \in DOMAIN apiCallsFound :
                               apiCallsFound[i] \in {"suspend_data", "location"}
        d3 == IF hasAPIReferences
              THEN << Detail("Found SCORM API calls", 0, uniqueFrom(apiCallsFound, 1, {})) >>
              ELSE << >>
        resumeCapable == hasSco \/ hasAPIReferences
        d4 == IF ~resumeCapable
              THEN << Detail("No clear resume capability indicators found", 0, << >>),
                      Detail("Package may still support resume", 0, << >>) >>
              ELSE << >>
    IN Analysis(FALSE, TRUE, "", TRUE, resumeCapable, d1 \o d2 \o d3 \o d4,
                IF hasVersion THEN "1.2" ELSE "", launchFile)

\* the try block of analyzeSCORM
tryAnalyze(zip) ==
    IF ~zip.readable THEN Raised("invalid zip")
    ELSE LET m == findManifestEntry(zip.files)
         IN IF m = 0 THEN Failed("No imsmanifest.xml found in the package")
            ELSE LET p == parseString(zip.files[m].xml)
                 IN IF ~p.ok THEN Raised("parse error")
                    ELSE IF p.doc.root = "other" THEN Raised("TypeError")
                    ELSE classify(zip.files, p.doc)

\* a catch block that throws the error on
catchError_rethrow(r) == r

\* catch (error) { return { success: false, error: error.message } }
catchError(r) == IF r.threw THEN Failed(r.error) ELSE r

analyzeSCORM(zip) == catchError(tryAnalyze(zip))

AnalysisIdle == [pc |-> "idle", result |-> Failed("")]

\* one call of analyzeSCORM on the archive
Analyze ==
    /\ req = "analyze"
    /\ analysis.pc = "idle"
    /\ analysis' = [pc |-> "done", result |-> analyzeSCORM(zipIn)]
    /\ UNCHANGED <<zipIn, req, run, rep, tmpDirs, outZip, firstRun, upd, updatedZip,
                   launchVars, serverVars>>

-----------------------------------------------------------------------------
(* The injectors run again and again over one tree *)

InjIdle == [shimRuns |-> 0, trackerRuns |-> 0]

\* injectShimIntoDir(dir, dir), called once more on the tree
InjectShim ==
    /\ inj.shimRuns < MaxInjectRuns
    /\ tree' = injectShimIntoDir(tree)
    /\ inj' = [inj EXCEPT !.shimRuns = @ + 1]
    /\ UNCHANGED <<found, lpc, repairVars, analysis, batch, sessions, resp, shim, store, page,
                   tracker>>

\* injectTrackerIntoDir(dir, dir), called once more on the tree
InjectTracker ==
    /\ inj.trackerRuns < MaxInjectRuns
    /\ tree' = injectTrackerIntoDir(tree)
    /\ inj' = [inj EXCEPT !.trackerRuns = @ + 1]
    /\ UNCHANGED <<found, lpc, repairVars, analysis, batch, sessions, resp, shim, store, page,
                   tracker>>

-----------------------------------------------------------------------------
(* repairSCORM and createUpdatedZip as their callers see them *)

\* the element of a one-element set: a value computed once and then named
Only(S) == CHOOSE x \in S : TRUE

\* repairSCORM from the call to its end: what RepairBegin, RepairParsed and
\* RepairReparsed do in turn
repairSCORM(zip) ==
    IF ~zip.readable THEN Steps(TRUE, << >>, FALSE, << >>, << >>, NoHref)
    ELSE Only({ Only({ IF p.ok
                       THEN repairSteps(m.fs, m.manifestPath, p.doc, m.repairs)
                       ELSE Only({ IF p2.ok
                                   THEN repairSteps(m.fs, m.manifestPath, p2.doc,
                                                    Append(m.repairs,
                                                           Fix("rebuilt manifest", << >>)))
                                   ELSE Steps(TRUE, m.fs, FALSE, << >>, m.repairs, NoHref) :
                                   p2 \in { parseString(buildMinimalManifest(
                                               orIndexHtml(findLaunchFile(m.fs, << >>)))) } }) :
                       p \in { parseString(m.manifestXml) } }) :
                m \in { findOrCreateManifest(zip.files) } })

\* createUpdatedZip: the entries of the archive it writes, or threw
createUpdatedZip(zip) ==
    IF ~zip.readable THEN [threw |-> TRUE, files |-> << >>]
    ELSE [threw |-> FALSE,
          files |-> addDirToZip(injectTrackerIntoDir(injectShimIntoDir(zip.files)))]

\* injectShimIntoSession(sessionDir)
injectShimIntoSession(fs) == injectShimIntoDir(fs)

\* the session ids crypto.randomBytes hands out, taken to be new each time
SessionIds == << "s1", "s2", "s3", "s4", "s5", "s6", "s7", "s8" >>

randomBytes(dirs) ==
    SessionIds[CHOOSE k \in DOMAIN SessionIds :
                  /\ SessionIds[k] \notin DOMAIN dirs
                  /\ \A j \in 1..(k - 1) : SessionIds[j] \in DOMAIN dirs]

-----------------------------------------------------------------------------
(* The batch endpoints: /analyze-folder and /repair-folder *)

\* the lower-case names of the model that end in .zip, and those among them
\* that end in _repaired.zip
ZipLowerNames ==
    { "a.zip", "b.zip", "a_repaired.zip", "c_repaired.zip", "b.zip_repaired.zip",
      "a_repaired_repaired.zip", "c_repaired.zip_repaired.zip" }
RepairedLowerNames == ZipLowerNames \ { "a.zip", "b.zip" }

\* path.basename(zipFile, '.zip') + '_repaired.zip': the extension is cut
\* off only where it is spelled in lower case
repairedZipName(zipFile) ==
    CASE zipFile = "a.zip" -> "a_repaired.zip"
      [] zipFile = "B.ZIP" -> "B.ZIP_repaired.zip"
      [] zipFile = "a_repaired.zip" -> "a_repaired_repaired.zip"
      [] zipFile = "C_REPAIRED.ZIP" -> "C_REPAIRED.ZIP_repaired.zip"
      [] OTHER -> "notes.txt_repaired.zip"

\* a filter that compares the repair suffix as the name is spelled
zipFilesOf_caseSensitive(folder) ==
    SelectSeq(folder, LAMBDA e : /\ toLowerCase(e.name) \in ZipLowerNames
                                 /\ e.name \notin RepairedLowerNames)

\* readdirSync(folderPath).filter(f => f.toLowerCase().endsWith('.zip')
\*                                  && !f.toLowerCase().endsWith('_repaired.zip'))
zipFilesOf(folder) ==
    SelectSeq(folder, LAMBDA e : /\ toLowerCase(e.name) \in ZipLowerNames
                                 /\ toLowerCase(e.name) \notin RepairedLowerNames)

\* path.basename(zipFile, '.zip') + '_updated.zip'
updatedZipName(zipFile) ==
    CASE zipFile = "a.zip" -> "a_updated.zip"
      [] zipFile = "B.ZIP" -> "B.ZIP_updated.zip"
      [] zipFile = "a_repaired.zip" -> "a_repaired_updated.zip"
      [] zipFile = "C_REPAIRED.ZIP" -> "C_REPAIRED.ZIP_updated.zip"
      [] OTHER -> "notes.txt_updated.zip"

\* repaired/ and updated/ as they are when the server starts: each maps a
\* file name to the number of operations that have written that file (what
\* the file written last holds is in outZip and updatedZip)
StoreIdle == [repaired |-> << >>, updated |-> << >>, app |-> TRUE]

\* outZip.writeZip(path): the file is made, or written over
writeZip(dir, name) ==
    [n \in DOMAIN dir \cup {name} |->
        IF n # name THEN dir[n] ELSE IF n \in DOMAIN dir THEN dir[n] + 1 ELSE 1]

\* one entry of the results list
Entry(filename, success, resumeCapable, sessionId, repairedFile, error) ==
    [filename |-> filename, success |-> success, resumeCapable |-> resumeCapable,
     sessionId |-> sessionId, repairedFile |-> repairedFile, error |-> error]

\* results.unshift(entry)
push_atHead(results, entry) == << entry >> \o results

\* results.push(entry)
push(results, entry) == Append(results, entry)

\* what /analyze-folder pushes for one archive: the analysis spread into the
\* entry, or the entry of the catch block when fs.statSync throws
analyzeFolderEntry(zipFile) ==
    LET a == analyzeSCORM(zipFile.zip)
    IN IF zipFile.dangling
       THEN Entry(zipFile.name, FALSE, FALSE, "", "", "ENOENT")
       ELSE Entry(zipFile.name, a.success, a.resumeCapable, "", "", a.error)

\* what /repair-folder pushes for one archive: the result spread into the
\* entry, or the entry of the catch block
repairFolderEntry(zipFile, result, sessionId) ==
    IF result.threw
    THEN Entry(zipFile.name, FALSE, FALSE, "", "", "error")
    ELSE Entry(zipFile.name, TRUE, FALSE, sessionId, repairedZipName(zipFile.name), "")

Counts(successCount, resumeCapableCount, failedCount) ==
    [successCount |-> successCount, resumeCapableCount |-> resumeCapableCount,
     failedCount |-> failedCount]

\* counters that leave a failed archive out
countEntry_successOnly(c, entry) ==
    IF entry.success
    THEN Counts(c.successCount + 1,
                c.resumeCapableCount + (IF entry.resumeCapable THEN 1 ELSE 0),
                c.failedCount)
    ELSE c

\* successCount++, resumeCapableCount++ or failedCount++ after the push
countEntry(c, entry) ==
    IF entry.success
    THEN Counts(c.successCount + 1,
                c.resumeCapableCount + (IF entry.resumeCapable THEN 1 ELSE 0),
                c.failedCount)
    ELSE Counts(c.successCount, c.resumeCapableCount, c.failedCount + 1)

Summary(totalFiles, successfullyAnalyzed, resumeCapable, failed) ==
    [totalFiles |-> totalFiles, successfullyAnalyzed |-> successfullyAnalyzed,
     resumeCapable |-> resumeCapable, failed |-> failed]

BatchIdle ==
    [pc |-> "idle", folder |-> << >>, zipFiles |-> << >>, k |-> 0, results |-> << >>,
     counts |-> Counts(0, 0, 0), summary |-> Summary(0, 0, 0, 0)]

\* both endpoints, up to the loop: the list of archives, or status 400
FolderBegin ==
    /\ req \in {"analyze-folder", "repair-folder"}
    /\ batch.pc = "idle"
    /\ LET zipFiles == zipFilesOf(batch.folder)
       IN batch' = IF Len(zipFiles) = 0
                   THEN [batch EXCEPT !.pc = "rejected"]
                   ELSE [batch EXCEPT !.pc = "looping", !.zipFiles = zipFiles, !.k = 1]
    /\ UNCHANGED <<launchVars, repairVars, analysis, inj, sessions, resp, shim, store, page,
                   tracker>>

\* one turn of the loop of /analyze-folder
AnalyzeFolderFile ==
    /\ req = "analyze-folder"
    /\ batch.pc = "looping"
    /\ batch.k <= Len(batch.zipFiles)
    /\ LET zipFile == batch.zipFiles[batch.k]
           entry == analyzeFolderEntry(zipFile)
           u == createUpdatedZip(zipFile.zip)
       IN /\ batch' = [batch EXCEPT !.results = push(@, entry),
                                    !.counts = countEntry(@, entry),
                                    !.k = @ + 1]
          /\ updatedZip' = IF u.threw THEN updatedZip
                           ELSE [exists |-> TRUE, files |-> u.files, writer |-> UpdateTmp]
          /\ store' = IF u.threw THEN store
                      ELSE [store EXCEPT
                              !.updated = writeZip(@, updatedZipName(zipFile.name))]
    /\ UNCHANGED <<launchVars, zipIn, req, run, rep, tmpDirs, outZip, firstRun, upd,
                   analysis, inj, sessions, resp, shim, page, tracker>>

\* the response of /analyze-folder
AnalyzeFolderEnd ==
    /\ req = "analyze-folder"
    /\ batch.pc = "looping"
    /\ batch.k > Len(batch.zipFiles)
    /\ batch' = [batch EXCEPT !.pc = "done",
                              !.summary = Summary(Len(batch.zipFiles),
                                                  batch.counts.successCount,
                                                  batch.counts.resumeCapableCount,
                                                  batch.counts.failedCount)]
    /\ UNCHANGED <<launchVars, repairVars, analysis, inj, sessions, resp, shim, store, page,
                   tracker>>

\* one turn of the loop of /repair-folder
RepairFolderFile ==
    /\ req = "repair-folder"
    /\ batch.pc = "looping"
    /\ batch.k <= Len(batch.zipFiles)
    /\ \E zipFile \in { batch.zipFiles[batch.k] }, sessionId \in { randomBytes(sessions) } :
          \E result \in { repairSCORM(zipFile.zip) } :
             /\ batch' = [batch EXCEPT
                            !.results = push(@, repairFolderEntry(zipFile, result,
                                                                  sessionId)),
                            !.k = @ + 1]
             /\ outZip' = IF result.written
                          THEN [exists |-> TRUE, files |-> result.files,
                                writer |-> RepairTmp]
                          ELSE outZip
             /\ store' = IF result.written
                         THEN [store EXCEPT
                                 !.repaired = writeZip(@, repairedZipName(zipFile.name))]
                         ELSE store
             /\ sessions' = IF result.threw THEN sessions
                            ELSE putTmpDir(sessions, sessionId,
                                           injectShimIntoSession(result.files))
    /\ UNCHANGED <<launchVars, zipIn, req, run, rep, tmpDirs, firstRun, upd, updatedZip,
                   analysis, inj, resp, shim, page, tracker>>

\* the response of /repair-folder
RepairFolderEnd ==
    /\ req = "repair-folder"
    /\ batch.pc = "looping"
    /\ batch.k > Len(batch.zipFiles)
    /\ batch' = [batch EXCEPT !.pc = "done"]
    /\ UNCHANGED <<launchVars, repairVars, analysis, inj, sessions, resp, shim, store, page,
                   tracker>>

\* displayBatchRepairResults: the page derives the summary of a batch repair
DisplayBatchRepairResults ==
    /\ req = "repair-folder"
    /\ batch.pc = "done"
    /\ LET results == batch.results
           repaired == Len(SelectSeq(results, LAMBDA r : r.success))
           failed == Len(SelectSeq(results, LAMBDA r : ~r.success))
           playable == Len(SelectSeq(results, LAMBDA r : r.sessionId # ""))
       IN batch' = [batch EXCEPT !.pc = "displayed",
                                 !.summary = Summary(Len(batch.results), repaired,
                                                     playable, failed)]
    /\ UNCHANGED <<launchVars, repairVars, analysis, inj, sessions, resp, shim, store, page,
                   tracker>>

-----------------------------------------------------------------------------
(* The archives the endpoints are tried on *)

ScoManifest ==
    XmlFile(<<"imsmanifest.xml">>,
            XmlText(FALSE, FALSE,
                    Doc("manifest", TRUE, "full", "list",
                        << Resource(TRUE, "sco", Href(FALSE, <<"story.html">>)) >>)))

AssetManifest ==
    XmlFile(<<"imsmanifest.xml">>,
            XmlText(FALSE, FALSE,
                    Doc("manifest", TRUE, "full", "list",
                        << Resource(TRUE, "asset", NoHref) >>)))

EmptyManifest ==
    XmlFile(<<"imsmanifest.xml">>,
            XmlText(FALSE, FALSE, Doc("empty", FALSE, "absent", "absent", << >>)))

\* an archive that is no zip file; a package with a SCO and its launch file;
\* one with an asset and no launch file declared; one without a manifest;
\* one whose manifest is an empty element
BatchArchives ==
    { Unreadable,
      [readable |-> TRUE,
       files |-> << ScoManifest, HtmlFile(<<"story.html">>, <<"<head>", "</head>">>) >>],
      [readable |-> TRUE,
       files |-> << AssetManifest, HtmlFile(<<"story.html">>, <<"body">>),
                    HtmlFile(<<"sub", "page.html">>, <<"</head>", "body">>) >>],
      [readable |-> TRUE, files |-> << HtmlFile(<<"sub", "page.html">>, <<"body">>) >>],
      [readable |-> TRUE, files |-> << EmptyManifest >>] }

-----------------------------------------------------------------------------
(* Player sessions: /upload, /repair and DELETE /play-session/:sessionId *)

\* the last response the server gave, and how many requests it has answered
Response(op, id, success, existed, launchFile, n) ==
    [op |-> op, id |-> id, success |-> success, existed |-> existed,
     launchFile |-> launchFile, n |-> n]

RespIdle == Response("none", "", FALSE, FALSE, NoHref, 0)

\* path.join(__dirname, 'player_sessions', req.params.sessionId), as a path
\* below __dirname
sessionDirOf(sessionId) == normalizeFrom(<<"player_sessions", sessionId>>, 1, << >>)

\* fs.rmSync(dir, { recursive: true, force: true }): the session directories
\* that are left
rmSync(dirs, dir) ==
    [d \in { x \in DOMAIN dirs : ~IsPrefix(dir, <<"player_sessions", x>>) } |-> dirs[d]]

\* the same call, for a file in a directory next to player_sessions
rmSyncFile(file, fileDir, dir) == IF IsPrefix(dir, fileDir) THEN NoFile ELSE file

\* the same call, for repaired/, updated/ and the application's own files,
\* which all lie right under __dirname
rmSyncStore(st, dir) ==
    IF dir = << >>
    THEN [st EXCEPT !.repaired = << >>, !.updated = << >>, !.app = FALSE]
    ELSE st

\* the names clients give the archives they upload
UploadNames == { "a.zip", "B.ZIP" }

\* a handler that removes the directory without looking whether it is
\* there, and answers with the error when it is not
destroySession_mustExist(dirs, sessionId) ==
    [dirs |-> rmSync(dirs, sessionDirOf(sessionId)),
     success |-> sessionId \in DOMAIN dirs]

\* if (fs.existsSync(sessionDir)) fs.rmSync(...); res.json({ success: true })
destroySession(dirs, sessionId) ==
    [dirs |-> rmSync(dirs, sessionDirOf(sessionId)), success |-> TRUE]

\* what a client may put in the place of :sessionId: the ids of the first
\* sessions, there or not, an id no session ever has, and the two dot segments
DeleteParams == { "s1", "s2", "s8", ".", ".." }

\* POST /upload: the analysis and the archive with the tracker
PostUpload ==
    /\ resp.n < MaxRequests
    /\ \E zip \in { Unreadable, [readable |-> TRUE, files |-> << ScoManifest >>] } :
          \E u \in { createUpdatedZip(zip) }, originalname \in UploadNames :
             /\ analysis' = [pc |-> "done", result |-> analyzeSCORM(zip)]
             /\ updatedZip' = IF u.threw THEN updatedZip
                              ELSE [exists |-> TRUE, files |-> u.files,
                                    writer |-> UpdateTmp]
             /\ store' = IF u.threw THEN store
                         ELSE [store EXCEPT
                                 !.updated = writeZip(@, updatedZipName(originalname))]
    /\ resp' = Response("upload", "", TRUE, FALSE, NoHref, resp.n + 1)
    /\ UNCHANGED <<launchVars, zipIn, req, run, rep, tmpDirs, outZip, firstRun, upd,
                   inj, batch, sessions, shim, page, tracker>>

\* POST /repair: the repair, then the player session made of its output
PostRepair ==
    /\ resp.n < MaxRequests
    /\ \E zip \in BatchArchives :
          \E result \in { repairSCORM(zip) }, sessionId \in { randomBytes(sessions) },
             originalname \in UploadNames :
             IF result.threw
             THEN /\ resp' = Response("repair", "", FALSE, FALSE, NoHref, resp.n + 1)
                  /\ UNCHANGED <<outZip, sessions, store>>
             ELSE /\ outZip' = [exists |-> TRUE, files |-> result.files,
                                writer |-> RepairTmp]
                  /\ store' = [store EXCEPT
                                  !.repaired = writeZip(@, repairedZipName(originalname))]
                  /\ sessions' = putTmpDir(sessions, sessionId,
                                           injectShimIntoSession(result.files))
                  /\ resp' = Response("repair", sessionId, TRUE, FALSE,
                                      result.launchFile, resp.n + 1)
    /\ UNCHANGED <<launchVars, zipIn, req, run, rep, tmpDirs, firstRun, upd, updatedZip,
                   analysis, inj, batch, shim, page, tracker>>

\* DELETE /play-session/:sessionId
DeleteSession ==
    /\ resp.n < MaxRequests
    /\ \E sessionId \in DeleteParams :
          \E d \in { destroySession(sessions, sessionId) } :
             /\ sessions' = d.dirs
             /\ outZip' = rmSyncFile(outZip, <<"repaired">>, sessionDirOf(sessionId))
             /\ updatedZip' = rmSyncFile(updatedZip, <<"updated">>,
                                         sessionDirOf(sessionId))
             /\ store' = rmSyncStore(store, sessionDirOf(sessionId))
             /\ resp' = Response("delete", sessionId, d.success,
                                 sessionId \in DOMAIN sessions, NoHref, resp.n + 1)
    /\ UNCHANGED <<launchVars, zipIn, req, run, rep, tmpDirs, firstRun, upd, analysis,
                   inj, batch, shim, page, tracker>>

-----------------------------------------------------------------------------
(* The API shim in the content's window (scorm-api-shim.js) *)

\* a CMI object without keys
EmptyCMI == [k \in {} |-> ""]

\* the values of JavaScript that are no strings, among those a call may
\* hand over or JSON may give back
Undefined == "<undefined>"
JsNaN == "<NaN>"
JsNull == "<null>"

\* String(value)
String(value) ==
    CASE value = Undefined -> "undefined"
      [] value = JsNaN -> "NaN"
      [] value = JsNull -> "null"
      [] OTHER -> value

\* JSON.stringify(data): a member that is undefined is left out, NaN is
\* written as null
JSONstringify(data) ==
    [k \in { e \in DOMAIN data : data[e] # Undefined } |->
        IF data[k] = JsNaN THEN JsNull ELSE data[k]]

\* JSON.parse of a text JSON.stringify wrote
JSONparse(text) == text

\* cmi[key] || '': a key that is not there, undefined, null, NaN and the
\* empty string are all falsy
valueOr(cmi, key, other) ==
    IF key \in DOMAIN cmi /\ cmi[key] \notin {"", Undefined, JsNaN, JsNull}
    THEN cmi[key] ELSE other

\* the message postStatus builds from the CMI data
statusOf(cmi) ==
    [type |-> "scorm_status",
     completion |-> valueOr(cmi, "cmi.core.lesson_status",
                            valueOr(cmi, "cmi.completion_status", "not attempted")),
     score |-> valueOr(cmi, "cmi.core.score.raw", valueOr(cmi, "cmi.score.raw", "")),
     location |-> valueOr(cmi, "cmi.core.lesson_location",
                          valueOr(cmi, "cmi.location", "")),
     suspendDataLen |-> Len(valueOr(cmi, "cmi.suspend_data", ""))]

\* window.parent.postMessage(status, '*'): one more message at the host
postStatus(s, cmi) == [s EXCEPT !.posted = Append(@, statusOf(cmi))]

\* localStorage.setItem(STORAGE_KEY, JSON.stringify(data))
saveCMI(s, data) == [s EXCEPT !.stored = JSONstringify(data)]

Call(api, method, element) == [api |-> api, method |-> method, element |-> element]

\* callCount++, and which method of which object the content has called
counted(s, call) == [s EXCEPT !.callCount = @ + 1, !.call = call]

LMSInitialize(s) ==
    postStatus([s EXCEPT !.initialized = TRUE, !.lastError = "0"], s.cmiData)

LMSFinish(s) ==
    [postStatus(saveCMI(s, s.cmiData), s.cmiData) EXCEPT !.initialized = FALSE]

\* cmiData[element] !== undefined ? String(cmiData[element]) : ''
LMSGetValue(s, element) ==
    [s EXCEPT !.lastError = "0",
              !.returned = IF element \in DOMAIN s.cmiData /\ s.cmiData[element] # Undefined
                           THEN String(s.cmiData[element]) ELSE ""]

\* a method that posts the status before it stores the value
LMSSetValue_postFirst(s, element, value) ==
    LET data == [k \in DOMAIN s.cmiData \cup {element} |->
                    IF k = element THEN value ELSE s.cmiData[k]]
    IN [saveCMI(postStatus(s, s.cmiData), data)
           EXCEPT !.cmiData = data, !.lastError = "0", !.returned = "true"]

LMSSetValue(s, element, value) ==
    LET data == [k \in DOMAIN s.cmiData \cup {element} |->
                    IF k = element THEN value ELSE s.cmiData[k]]
    IN [postStatus(saveCMI([s EXCEPT !.cmiData = data], data), data)
           EXCEPT !.lastError = "0", !.returned = "true"]

LMSCommit(s) ==
    [postStatus(saveCMI(s, s.cmiData), s.cmiData) EXCEPT !.lastError = "0"]

\* the shim before the page has run its script
ShimIdle ==
    [cmiData |-> EmptyCMI, initialized |-> FALSE, lastError |-> "0", callCount |-> 0,
     posted |-> << >>, stored |-> EmptyCMI, returned |-> "",
     call |-> Call("none", "none", ""), loaded |-> FALSE]

\* the two objects the content can call: window.API and window.API_1484_11,
\* whose methods pass the call on to those of window.API
ApiObjects == { "API", "API_1484_11" }

CmiElements ==
    { "cmi.core.lesson_status", "cmi.completion_status", "cmi.core.lesson_location",
      "cmi.suspend_data", "cmi.core.score.raw" }

CmiValues == { "", "completed", "ab" }

\* the elements and the values the content of a player session works with:
\* a string, and two values that are no strings
PageElements == { "cmi.suspend_data", "cmi.core.lesson_status" }
PageValues == { "ab", Undefined, JsNaN }

OtherShimVars ==
    <<launchVars, repairVars, analysis, inj, batch, sessions, resp, store, page, tracker>>

\* LMSInitialize(param) or Initialize(param)
CallInitialize ==
    /\ shim.callCount < MaxCalls
    /\ \E api \in ApiObjects :
          shim' = [counted(LMSInitialize(shim), Call(api, "Initialize", ""))
                      EXCEPT !.returned = "true"]
    /\ UNCHANGED OtherShimVars

\* LMSFinish(param) or Terminate(param)
CallFinish ==
    /\ shim.callCount < MaxCalls
    /\ \E api \in ApiObjects :
          shim' = [counted(LMSFinish(shim), Call(api, "Finish", ""))
                      EXCEPT !.returned = "true"]
    /\ UNCHANGED OtherShimVars

\* LMSGetValue(element) or GetValue(element)
CallGetValue ==
    /\ shim.callCount < MaxCalls
    /\ \E api \in ApiObjects, element \in CmiElements :
          shim' = counted(LMSGetValue(shim, element), Call(api, "GetValue", element))
    /\ UNCHANGED OtherShimVars

\* LMSSetValue(element, value) or SetValue(element, value)
CallSetValue ==
    /\ shim.callCount < MaxCalls
    /\ \E api \in ApiObjects, element \in CmiElements, value \in CmiValues :
          shim' = counted(LMSSetValue(shim, element, value),
                          Call(api, "SetValue", element))
    /\ UNCHANGED OtherShimVars

\* LMSCommit(param) or Commit(param)
CallCommit ==
    /\ shim.callCount < MaxCalls
    /\ \E api \in ApiObjects :
          shim' = [counted(LMSCommit(shim), Call(api, "Commit", ""))
                      EXCEPT !.returned = "true"]
    /\ UNCHANGED OtherShimVars

\* LMSGetLastError() or GetLastError()
CallGetLastError ==
    /\ shim.callCount < MaxCalls
    /\ \E api \in ApiObjects :
          shim' = [counted(shim, Call(api, "GetLastError", ""))
                      EXCEPT !.returned = shim.lastError]
    /\ UNCHANGED OtherShimVars

\* the page's load event: the shim calls LMSInitialize itself when the
\* content has not
WindowLoad ==
    /\ ~shim.loaded
    /\ shim.callCount < MaxCalls
    /\ shim' = IF shim.initialized THEN [shim EXCEPT !.loaded = TRUE]
               ELSE [counted(LMSInitialize(shim), Call("API", "Initialize", ""))
                        EXCEPT !.returned = "true", !.loaded = TRUE]
    /\ UNCHANGED OtherShimVars

-----------------------------------------------------------------------------
(* The page of a player session in the hosting frame: every copy of the     *)
(* shim's body that runs in it is one instance, with CMI data of its own    *)

\* the session ids in the pathnames /play/<sessionId>/... of the model:
\* window.location.pathname.split('/')[2], the tail of STORAGE_KEY
PageSessions == { "s1", "s2" }

\* a shim whose key does not depend on the session of the page
loadCMI_oneKey(localStorage, session) == JSONparse(localStorage["s1"])

\* JSON.parse(localStorage.getItem(STORAGE_KEY) || '{}') for the page's key;
\* a key that was never written reads as the empty object
loadCMI(localStorage, session) == JSONparse(localStorage[session])

\* let cmiData = loadCMI(), initialized = false, lastError = '0', callCount = 0
Instance(cmiData) ==
    [cmiData |-> cmiData, initialized |-> FALSE, lastError |-> "0", callCount |-> 0]

\* the page before any script has run; localStorage of a browser that has
\* played no session; status is the last message the hosting frame has got,
\* set is what the content has set in each session
PageIdle ==
    [session |-> "s1", instances |-> << >>, windowAPI |-> 0, parentAPI |-> 0,
     localStorage |-> [k \in PageSessions |-> EmptyCMI], status |-> statusOf(EmptyCMI),
     returned |-> "", call |-> Call("none", "none", ""), calls |-> 0,
     loaded |-> FALSE, loads |-> 1,
     set |-> [k \in PageSessions |-> EmptyCMI]]

\* the members the content can reach, and the instance each is bound to (0
\* when the member is not set): both members of a window come from the same
\* instance
ApiMembers == { "window.API", "window.API_1484_11", "parent.API", "parent.API_1484_11" }

boundTo(p, member) ==
    IF member \in {"window.API", "window.API_1484_11"} THEN p.windowAPI ELSE p.parentAPI

\* one instance with the page's localStorage entry and the host's messages,
\* as the methods of the shim work on them
shimOf(p, i) ==
    [ShimIdle EXCEPT !.cmiData = p.instances[i].cmiData,
                     !.initialized = p.instances[i].initialized,
                     !.lastError = p.instances[i].lastError,
                     !.callCount = p.instances[i].callCount,
                     !.stored = p.localStorage[p.session],
                     !.posted = << p.status >>]

\* the page after a method of instance i has left the shim as s
pageAfter(p, i, s) ==
    [p EXCEPT !.instances[i] = [cmiData |-> s.cmiData, initialized |-> s.initialized,
                                lastError |-> s.lastError, callCount |-> s.callCount],
              !.localStorage[p.session] = s.stored,
              !.status = Last(s.posted),
              !.returned = s.returned,
              !.call = s.call]

\* window.API = API; window.API_1484_11 = API_1484_11: the instance that runs
\* last has the window's members
exposeOnWindow(p, i) == [p EXCEPT !.windowAPI = i]

\* if (!window.parent.API) window.parent.API = API, and the same for
\* API_1484_11: the instance that runs first has the parent's members
exposeOnParent(p, i) == IF p.parentAPI = 0 THEN [p EXCEPT !.parentAPI = i] ELSE p

OtherPageVars ==
    <<launchVars, repairVars, analysis, inj, batch, sessions, resp, shim, store, tracker>>

\* one copy of the shim's body runs while the page is parsed, in a page
\* that holds at most that many copies
BodyRuns(copies) ==
    /\ ~page.loaded
    /\ Len(page.instances) < copies
    /\ LET i == Len(page.instances) + 1
           p == [page EXCEPT !.instances =
                     Append(@, Instance(loadCMI(page.localStorage, page.session)))]
       IN page' = exposeOnParent(exposeOnWindow(p, i), i)
    /\ UNCHANGED OtherPageVars

\* the file scorm-api-shim.js holds two copies of the body, and a page may
\* hold the file more than once
ShimBodyRuns == BodyRuns(MaxShims)

\* a page with one copy of the body: a single instance of the shim
OneBodyRuns == BodyRuns(1)

RECURSIVE autoInitializeFrom(_, _)
\* the load listeners of the instances, in the order they were added: each
\* calls its own LMSInitialize when its instance is not initialized
autoInitializeFrom(p, i) ==
    IF i > Len(p.instances) THEN p
    ELSE IF p.instances[i].initialized THEN autoInitializeFrom(p, i + 1)
    ELSE autoInitializeFrom(
             pageAfter(p, i, [counted(LMSInitialize(shimOf(p, i)),
                                      Call("load", "Initialize", ""))
                                 EXCEPT !.returned = "true"]),
             i + 1)

\* the load event of the page
PageLoadEvent ==
    /\ ~page.loaded
    /\ Len(page.instances) >= 1
    /\ page' = [autoInitializeFrom(page, 1) EXCEPT !.loaded = TRUE]
    /\ UNCHANGED OtherPageVars

\* the content calls Initialize or LMSInitialize of a member it has found
PageInitialize ==
    /\ page.calls < MaxPageCalls
    /\ \E member \in ApiMembers :
          /\ boundTo(page, member) # 0
          /\ page' = [pageAfter(page, boundTo(page, member),
                                [counted(LMSInitialize(shimOf(page, boundTo(page, member))),
                                         Call(member, "Initialize", ""))
                                    EXCEPT !.returned = "true"])
                         EXCEPT !.calls = @ + 1]
    /\ UNCHANGED OtherPageVars

\* the content calls SetValue or LMSSetValue of a member it has found
PageSetValue ==
    /\ page.calls < MaxPageCalls
    /\ \E member \in ApiMembers, element \in PageElements, value \in PageValues :
          /\ boundTo(page, member) # 0
          /\ page' = [pageAfter(page, boundTo(page, member),
                                counted(LMSSetValue(shimOf(page, boundTo(page, member)),
                                                    element, value),
                                        Call(member, "SetValue", element)))
                         EXCEPT !.calls = @ + 1,
                                !.set[page.session] =
                                    [k \in DOMAIN @ \cup {element} |->
                                        IF k = element THEN value ELSE @[k]]]
    /\ UNCHANGED OtherPageVars

\* the content calls GetValue or LMSGetValue of a member it has found
PageGetValue ==
    /\ page.calls < MaxPageCalls
    /\ \E member \in ApiMembers, element \in PageElements :
          /\ boundTo(page, member) # 0
          /\ page' = [pageAfter(page, boundTo(page, member),
                                counted(LMSGetValue(shimOf(page, boundTo(page, member)),
                                                    element),
                                        Call(member, "GetValue", element)))
                         EXCEPT !.calls = @ + 1]
    /\ UNCHANGED OtherPageVars

\* the content calls Commit or LMSCommit of a member it has found
PageCommit ==
    /\ page.calls < MaxPageCalls
    /\ \E member \in ApiMembers :
          /\ boundTo(page, member) # 0
          /\ page' = [pageAfter(page, boundTo(page, member),
                                [counted(LMSCommit(shimOf(page, boundTo(page, member))),
                                         Call(member, "Commit", ""))
                                    EXCEPT !.returned = "true"])
                         EXCEPT !.calls = @ + 1]
    /\ UNCHANGED OtherPageVars

\* the content calls GetLastError or LMSGetLastError of a member it has found
PageGetLastError ==
    /\ page.calls < MaxPageCalls
    /\ \E member \in ApiMembers :
          /\ boundTo(page, member) # 0
          /\ LET s == shimOf(page, boundTo(page, member))
             IN page' = [pageAfter(page, boundTo(page, member),
                                   [counted(s, Call(member, "GetLastError", ""))
                                       EXCEPT !.returned = s.lastError])
                            EXCEPT !.calls = @ + 1]
    /\ UNCHANGED OtherPageVars

\* the player is loaded again and its frame pointed at a page of a session,
\* the same one or another: the instances of the page that was shown and
\* the members they had set are gone with it, localStorage stays
PageOpens ==
    /\ page.loads < MaxLoads
    /\ \E session \in PageSessions :
          page' = [page EXCEPT !.session = session, !.instances = << >>,
                               !.windowAPI = 0, !.parentAPI = 0, !.loaded = FALSE,
                               !.loads = @ + 1, !.returned = "",
                               !.call = Call("none", "none", "")]
    /\ UNCHANGED OtherPageVars

-----------------------------------------------------------------------------
(* The event tracker in the content's page (scorm-event-tracker.js): what   *)
(* it wraps, and the scorm_api_call events a call of a member emits         *)

\* if (++pollCount >= 20) clearInterval(pollInterval)
POLL_LIMIT == 20

\* the API objects of the page: the API and the API_1484_11 of each instance
\* of the shim; the object a member holds (instance 0: the member is not set)
apiObject(p, member) ==
    << IF member \in {"window.API", "parent.API"} THEN "API" ELSE "API_1484_11",
       boundTo(p, member) >>

\* one scorm_api_call event
Event(api, method) == [eventType |-> "scorm_api_call", api |-> api, method |-> method]

\* the tracker before its body has run: wrappers gives, for each object that
\* carries __trackerWrapped, the apiName of every wrapper around its methods;
\* events and returned are what the last call emitted and gave back
TrackerIdle ==
    [started |-> FALSE, polling |-> FALSE, pollCount |-> 0,
     wrappers |-> [o \in {} |-> << >>],
     calls |-> 0, tracked |-> FALSE, events |-> << >>, returned |-> ""]

\* the wrappers around the methods of an object
wrappersOf(t, apiObj) == IF apiObj \in DOMAIN t.wrappers THEN t.wrappers[apiObj] ELSE << >>

\* if (!apiObj || apiObj.__trackerWrapped) return; apiObj.__trackerWrapped =
\* true; every method of the list is replaced by a function that calls the
\* original, emits the event and returns what the original returned
wrapAPI(t, apiObj, apiName) ==
    IF apiObj[2] = 0 \/ apiObj \in DOMAIN t.wrappers THEN t
    ELSE [t EXCEPT !.wrappers =
             [o \in DOMAIN @ \cup {apiObj} |->
                 IF o = apiObj THEN Append(wrappersOf(t, apiObj), apiName) ELSE @[o]]]

\* the four members, in the order of the code
tryWrapAPIs(t, p) ==
    wrapAPI(wrapAPI(wrapAPI(wrapAPI(t,
        apiObject(p, "window.API"), "SCORM_1.2 (window)"),
        apiObject(p, "parent.API"), "SCORM_1.2 (parent)"),
        apiObject(p, "window.API_1484_11"), "SCORM_2004 (window)"),
        apiObject(p, "parent.API_1484_11"), "SCORM_2004 (parent)")

\* the methods of the model, under the names the two objects give them
TrackedMethods == { "Initialize", "SetValue", "GetValue" }

methodName(apiObj, method) == IF apiObj[1] = "API" THEN "LMS" \o method ELSE method

\* the method of the API object of a shim
apiMethod(s, method, element, value) ==
    CASE method = "Initialize" -> [LMSInitialize(s) EXCEPT !.returned = "true"]
      [] method = "SetValue" -> LMSSetValue(s, element, value)
      [] method = "GetValue" -> LMSGetValue(s, element)

\* the events the wrappers of one object emit for a call, innermost first
ownEvents(t, apiObj, method) ==
    [k \in 1..Len(wrappersOf(t, apiObj)) |->
        Event(wrappersOf(t, apiObj)[k], methodName(apiObj, method))]

\* the events of a call of a method of an object: a method of API_1484_11
\* calls the method of the API of its instance (return API.LMSSetValue(e, v)),
\* which is the wrapped one when that object has been wrapped
emitted(t, apiObj, method) ==
    (IF apiObj[1] = "API_1484_11" THEN ownEvents(t, <<"API", apiObj[2]>>, method)
     ELSE << >>) \o ownEvents(t, apiObj, method)

OtherTrackerVars ==
    <<launchVars, repairVars, analysis, inj, batch, sessions, resp, shim, store>>

\* the body of the tracker runs: tryWrapAPIs(), then setInterval
TrackerBodyRuns ==
    /\ ~tracker.started
    /\ tracker' = [tryWrapAPIs(tracker, page) EXCEPT !.started = TRUE, !.polling = TRUE]
    /\ UNCHANGED <<page, OtherTrackerVars>>

\* one round of the interval
PollRound ==
    /\ tracker.polling
    /\ tracker' = [tryWrapAPIs(tracker, page)
                      EXCEPT !.pollCount = @ + 1,
                             !.polling = ~(tracker.pollCount + 1 >= POLL_LIMIT)]
    /\ UNCHANGED <<page, OtherTrackerVars>>

\* the content calls a method of a member it has found
TrackedCall ==
    /\ tracker.calls < MaxTrackedCalls
    /\ \E member \in ApiMembers, method \in TrackedMethods :
          /\ boundTo(page, member) # 0
          /\ page' = pageAfter(page, boundTo(page, member),
                               counted(apiMethod(shimOf(page, boundTo(page, member)),
                                                 method, "cmi.suspend_data", "ab"),
                                       Call(member, method, "cmi.suspend_data")))
          /\ tracker' = [tracker EXCEPT
                            !.calls = @ + 1,
                            !.tracked = apiObject(page, member) \in DOMAIN tracker.wrappers,
                            !.events = emitted(tracker, apiObject(page, member), method),
                            !.returned = page'.returned]
    /\ UNCHANGED OtherTrackerVars

ServerIdle ==
    /\ tracker = TrackerIdle
    /\ page = PageIdle
    /\ store = StoreIdle
    /\ inj = InjIdle
    /\ batch = BatchIdle
    /\ sessions = << >>
    /\ resp = RespIdle
    /\ shim = ShimIdle

-----------------------------------------------------------------------------
(* SpecLaunch: findLaunchFile applied to every tree *)

InitLaunch ==
    /\ IsTree(tree)
    /\ found = Null
    /\ lpc = "start"
    /\ zipIn = Unreadable
    /\ req = "none"
    /\ analysis = AnalysisIdle
    /\ RepairIdle
    /\ ServerIdle

FindLaunch ==
    /\ lpc = "start"
    /\ found' = findLaunchFile(tree, << >>)
    /\ lpc' = "done"
    /\ UNCHANGED <<tree, repairVars, analysis, serverVars>>

NextLaunch == FindLaunch

SpecLaunch == InitLaunch /\ [][NextLaunch]_vars

-----------------------------------------------------------------------------
(* The archives repairSCORM and createUpdatedZip are tried on *)

RepairHtmlPaths == { <<"story.html">>, <<"sub", "page.html">>, <<"q&a.html">> }
\* documents with a head element spelled as the code looks for it, with none,
\* with the script reference in place, and with a head element whose opening
\* tag is in capitals or carries an attribute
RepairHtmlDocs == { <<"<head>", "</head>">>, <<"body">>,
                    <<"<head>", SHIM_TAG, "</head>">>,
                    <<"<html>", "<HEAD>", "</HEAD>">>,
                    <<"<head lang=en>", "title", "</head>">> }
RepairHtmlFiles == { HtmlFile(p, h) : p \in RepairHtmlPaths, h \in RepairHtmlDocs }

DistinctPaths(fs) == \A i, j \in DOMAIN fs : i # j => fs[i].path # fs[j].path

HtmlParts == { s \in SeqsUpTo(RepairHtmlFiles, MaxHtmlFiles) : DistinctPaths(s) }

DeclaredHrefs == { NoHref, Href(FALSE, <<"story.html">>),
                   Href(FALSE, <<"missing.html">>) }
Primaries ==
    { Resource(FALSE, "", NoHref) }
        \cup { Resource(TRUE, t, h) : t \in {"", "sco", "asset"}, h \in DeclaredHrefs }

\* the namespace declaration and the metadata block, as they come together
RepairHeads == { <<TRUE, "full">>, <<FALSE, "absent">>, <<TRUE, "noversion">> }

RepairDocs ==
    { Doc("manifest", hd[1], hd[2], r, << >>) :
          hd \in RepairHeads, r \in {"absent", "empty"} }
        \cup { Doc("manifest", hd[1], hd[2], "list", << p >>) :
                  hd \in RepairHeads, p \in Primaries }

RepairXmlTexts ==
    { XmlText(TRUE, FALSE, NoDoc),
      XmlText(FALSE, FALSE, NoDoc),
      XmlText(FALSE, FALSE, Doc("empty", FALSE, "absent", "absent", << >>)) }
        \cup { XmlText(FALSE, FALSE, d) : d \in RepairDocs }

ManifestPaths == { <<"imsmanifest.xml">>, <<"sub", "IMSMANIFEST.XML">> }

ManifestParts ==
    { << >> } \cup { << XmlFile(p, x) >> : p \in ManifestPaths, x \in RepairXmlTexts }

\* zip is one of the archives of the model
IsRepairArchive(zip) ==
    \/ zip = Unreadable
    \/ \E m \in ManifestParts, h \in HtmlParts :
          zip = [readable |-> TRUE, files |-> m \o h]

LaunchIdle ==
    /\ tree = << >>
    /\ found = Null
    /\ lpc = "start"

-----------------------------------------------------------------------------
(* SpecRepair: one call of repairSCORM, then a second on its output; or one *)
(* call of createUpdatedZip                                                 *)

InitRepair ==
    /\ IsRepairArchive(zipIn)
    /\ req \in {"repair", "update"}
    /\ RepairIdle
    /\ analysis = AnalysisIdle
    /\ LaunchIdle
    /\ ServerIdle

NextRepair ==
    \/ RepairBegin
    \/ RepairParsed
    \/ RepairReparsed
    \/ RepairAgain
    \/ CreateUpdatedZip

SpecRepair == InitRepair /\ [][NextRepair]_vars

-----------------------------------------------------------------------------
(* SpecInject: both injectors, in any order and number, over one tree *)

InjectPaths == { <<"story.html">>, <<"sub", "PAGE.HTML">>, <<"notes.txt">> }

\* documents with an opening head tag, with a closing one only, with none,
\* and documents an earlier injection has been through
InjectDocs ==
    { <<"body">>,
      <<"<head>", "</head>", "body">>,
      <<"</head>", "body">>,
      <<"<head>", SHIM_TAG, "</head>">>,
      <<SHIM_BLOCK, "body">>,
      <<"<head>", TRACKER_BLOCK, "</head>">> }

InjectFiles == { HtmlFile(p, h) : p \in InjectPaths, h \in InjectDocs }

InitInject ==
    /\ \E t \in SeqsUpTo(InjectFiles, MaxHtmlFiles) : DistinctPaths(t) /\ tree = t
    /\ found = Null
    /\ lpc = "start"
    /\ zipIn = Unreadable
    /\ req = "none"
    /\ analysis = AnalysisIdle
    /\ RepairIdle
    /\ ServerIdle

NextInject ==
    \/ InjectShim
    \/ InjectTracker

SpecInject == InitInject /\ [][NextInject]_vars

-----------------------------------------------------------------------------
(* SpecBatch: one batch request over every folder of the model *)

FolderNames == { "a.zip", "B.ZIP", "a_repaired.zip", "C_REPAIRED.ZIP", "notes.txt" }

\* the entries a folder may hold: archives under every name, a link that
\* leads nowhere, a text file
FolderEntries ==
    { [name |-> n, zip |-> z, dangling |-> FALSE] :
          n \in FolderNames \ {"notes.txt"}, z \in BatchArchives }
        \cup { [name |-> n, zip |-> Unreadable, dangling |-> TRUE] :
                  n \in {"a.zip", "B.ZIP"} }
        \cup { [name |-> "notes.txt", zip |-> Unreadable, dangling |-> FALSE] }

DistinctNames(folder) ==
    \A i, j \in DOMAIN folder : i # j => folder[i].name # folder[j].name

InitBatch ==
    /\ \E f \in SeqsUpTo(FolderEntries, MaxFolderEntries) :
          DistinctNames(f) /\ batch = [BatchIdle EXCEPT !.folder = f]
    /\ req \in {"analyze-folder", "repair-folder"}
    /\ zipIn = Unreadable
    /\ analysis = AnalysisIdle
    /\ RepairIdle
    /\ LaunchIdle
    /\ inj = InjIdle
    /\ sessions = << >>
    /\ resp = RespIdle
    /\ shim = ShimIdle
    /\ store = StoreIdle
    /\ page = PageIdle
    /\ tracker = TrackerIdle

NextBatch ==
    \/ FolderBegin
    \/ AnalyzeFolderFile
    \/ AnalyzeFolderEnd
    \/ RepairFolderFile
    \/ RepairFolderEnd
    \/ DisplayBatchRepairResults

SpecBatch == InitBatch /\ [][NextBatch]_vars

-----------------------------------------------------------------------------
(* SpecSession: uploads, repairs and deletions, in any order, while a batch *)
(* run goes on                                                              *)

SessionFolders ==
    { << [name |-> "a.zip", zip |-> z, dangling |-> FALSE] >> :
          z \in { Unreadable,
                  [readable |-> TRUE,
                   files |-> << HtmlFile(<<"sub", "page.html">>, <<"body">>) >>] } }

InitSession ==
    /\ \E f \in SessionFolders : batch = [BatchIdle EXCEPT !.folder = f]
    /\ req \in {"analyze-folder", "repair-folder"}
    /\ zipIn = Unreadable
    /\ analysis = AnalysisIdle
    /\ RepairIdle
    /\ LaunchIdle
    /\ inj = InjIdle
    /\ sessions = << >>
    /\ resp = RespIdle
    /\ shim = ShimIdle
    /\ store = StoreIdle
    /\ page = PageIdle
    /\ tracker = TrackerIdle

NextSession ==
    \/ PostUpload
    \/ PostRepair
    \/ DeleteSession
    \/ FolderBegin
    \/ AnalyzeFolderFile
    \/ AnalyzeFolderEnd
    \/ RepairFolderFile
    \/ RepairFolderEnd

SpecSession == InitSession /\ [][NextSession]_vars

-----------------------------------------------------------------------------
(* SpecShim: the content's calls of the API in one page *)

\* what localStorage holds under the shim's key when the page opens
InitialStores ==
    { EmptyCMI,
      [k \in {"cmi.core.lesson_status", "cmi.suspend_data"} |->
          IF k = "cmi.suspend_data" THEN "ab" ELSE "incomplete"] }

InitShim ==
    /\ \E data \in InitialStores :
          shim = [ShimIdle EXCEPT !.cmiData = data, !.stored = data]
    /\ zipIn = Unreadable
    /\ req = "none"
    /\ analysis = AnalysisIdle
    /\ RepairIdle
    /\ LaunchIdle
    /\ inj = InjIdle
    /\ batch = BatchIdle
    /\ sessions = << >>
    /\ resp = RespIdle
    /\ store = StoreIdle
    /\ page = PageIdle
    /\ tracker = TrackerIdle

NextShim ==
    \/ CallInitialize
    \/ CallFinish
    \/ CallGetValue
    \/ CallSetValue
    \/ CallCommit
    \/ CallGetLastError
    \/ WindowLoad

SpecShim == InitShim /\ [][NextShim]_vars

-----------------------------------------------------------------------------
(* SpecPage: the pages the player's frame shows, the copies of the shim     *)
(* that run in each, and the content's calls                                *)

InitPage ==
    /\ page = PageIdle
    /\ zipIn = Unreadable
    /\ req = "none"
    /\ analysis = AnalysisIdle
    /\ RepairIdle
    /\ LaunchIdle
    /\ inj = InjIdle
    /\ batch = BatchIdle
    /\ sessions = << >>
    /\ resp = RespIdle
    /\ shim = ShimIdle
    /\ store = StoreIdle
    /\ tracker = TrackerIdle

NextPage ==
    \/ ShimBodyRuns
    \/ PageLoadEvent
    \/ PageInitialize
    \/ PageSetValue
    \/ PageGetValue
    \/ PageCommit
    \/ PageGetLastError
    \/ PageOpens

SpecPage == InitPage /\ [][NextPage]_vars

\* SpecOnePage: the same, for pages that hold one copy of the shim's body
NextOnePage ==
    \/ OneBodyRuns
    \/ PageLoadEvent
    \/ PageInitialize
    \/ PageSetValue
    \/ PageGetValue
    \/ PageCommit
    \/ PageGetLastError
    \/ PageOpens

SpecOnePage == InitPage /\ [][NextOnePage]_vars

-----------------------------------------------------------------------------
(* SpecTracker: the bodies of the shim and of the tracker run in a page in  *)
(* any order, the tracker polls, and the content calls the API              *)

InitTracker ==
    /\ page = PageIdle
    /\ zipIn = Unreadable
    /\ req = "none"
    /\ analysis = AnalysisIdle
    /\ RepairIdle
    /\ LaunchIdle
    /\ inj = InjIdle
    /\ batch = BatchIdle
    /\ sessions = << >>
    /\ resp = RespIdle
    /\ shim = ShimIdle
    /\ store = StoreIdle
    /\ tracker = TrackerIdle

NextTracker ==
    \/ ShimBodyRuns
    \/ TrackerBodyRuns
    \/ PollRound
    \/ TrackedCall

SpecTracker == InitTracker /\ [][NextTracker]_vars

-----------------------------------------------------------------------------
(* The archives analyzeSCORM is tried on, and SpecAnalyze *)

AnalyzeManifestPaths ==
    { <<"imsmanifest.xml">>, <<"sub", "IMSMANIFEST.XML">>, <<"old_imsmanifest.xml">> }

AnalyzeResourceLists ==
    { << p >> \o s :
        p \in { Resource(FALSE, "", NoHref), Resource(TRUE, "", NoHref),
                Resource(TRUE, "sco", Href(FALSE, <<"story.html">>)),
                Resource(TRUE, "asset", Href(FALSE, <<"story.html">>)) },
        s \in { << >>, << Resource(TRUE, "sco", NoHref) >>,
                << Resource(TRUE, "asset", NoHref) >> } }

AnalyzeXmlTexts ==
    { XmlText(TRUE, FALSE, NoDoc),
      XmlText(FALSE, FALSE, NoDoc),
      XmlText(FALSE, FALSE, Doc("empty", FALSE, "absent", "absent", << >>)),
      XmlText(FALSE, FALSE, Doc("manifest", TRUE, "full", "absent", << >>)),
      XmlText(FALSE, FALSE, Doc("manifest", FALSE, "absent", "absent", << >>)) }
        \cup { XmlText(FALSE, FALSE, Doc("manifest", TRUE, "full", "list", r)) :
                  r \in AnalyzeResourceLists }

AnalyzeManifestParts ==
    { << >> }
        \cup { << XmlFile(p, x) >> : p \in AnalyzeManifestPaths, x \in AnalyzeXmlTexts }

\* what the script files from some position on contain
ScriptContents ==
    { {"cmi.suspend_data"},
      {"cmi.location", "cmi.core.lesson_status"},
      {"API.LMSInitialize", "cmi.completion_status"},
      {"cmi.core.lesson_location"} }

\* n script files, of which those from position h on hold content c
Scripts(n, h, c) ==
    [k \in 1..n |-> ScriptFile(<<"js", ScriptNames[k]>>,
                               IF h # 0 /\ k >= h THEN c ELSE {})]

\* files that are no scripts and hold a persistence call all the same
OtherParts == { << >>, << ScriptFile(<<"readme.txt">>, {"cmi.suspend_data"}) >> }

InitAnalyze ==
    /\ \/ zipIn = Unreadable
       \/ \E m \in AnalyzeManifestParts, n \in 0..MaxJsFiles, o \in OtherParts :
             \E h \in 0..n :
                \E c \in (IF h = 0 THEN { {} } ELSE ScriptContents) :
                    zipIn = [readable |-> TRUE, files |-> o \o m \o Scripts(n, h, c)]
    /\ req = "analyze"
    /\ analysis = AnalysisIdle
    /\ RepairIdle
    /\ LaunchIdle
    /\ ServerIdle

NextAnalyze == Analyze

SpecAnalyze == InitAnalyze /\ [][NextAnalyze]_vars

-----------------------------------------------------------------------------
(* C10 *)

FileNamesLower(fs) == { toLowerCase(Last(fs[i].path)) : i \in DOMAIN fs }
PathsOf(fs) == { fs[i].path : i \in DOMAIN fs }

\* the index in LAUNCH_CANDIDATES of the earliest candidate name present
BestCandidate(fs) ==
    LET present == { k \in DOMAIN LAUNCH_CANDIDATES :
                        LAUNCH_CANDIDATES[k] \in FileNamesLower(fs) }
    IN IF present = {} THEN 0
       ELSE CHOOSE k \in present : \A m \in present : k <= m

\* the HTML files of a tree in depth-first order
HtmlInWalk(fs) == SelectSeq(addDirToZip(fs), LAMBDA f : matchesHtml(Last(f.path)))

\* C10: findLaunchFile returns a file of the tree that bears the earliest
\* name of the priority list present anywhere in the tree; when no listed
\* name is present it returns the first HTML file of the depth-first walk;
\* it returns null only when the tree holds no HTML file.
C10_LaunchPriority ==
    lpc = "done" =>
        LET k == BestCandidate(tree) IN
        /\ k # 0 => /\ found \in PathsOf(tree)
                    /\ toLowerCase(Last(found)) = LAUNCH_CANDIDATES[k]
        /\ k = 0 /\ HtmlInWalk(tree) # << >> => found = HtmlInWalk(tree)[1].path
        /\ found = Null <=> HtmlInWalk(tree) = << >>

\* a platform-specific name and index.html both exist below the root, the
\* generic one listed first, and the platform-specific one was returned
C10_Witness ==
    /\ lpc = "done"
    /\ Len(tree) >= 2
    /\ toLowerCase(Last(tree[1].path)) = "index.html"
    /\ \E i \in DOMAIN tree : tree[i].path = <<"a", "b", "index_lms.htm">>
    /\ found = <<"a", "b", "index_lms.htm">>

-----------------------------------------------------------------------------
(* Claims about repairSCORM and createUpdatedZip, under SpecRepair *)

RepairDone == rep.pc \in {"returned", "thrown"}

\* the manifest a tree holds, as Fix 1 looks for it
ManifestPathOf(fs) == findFile(fs, << >>, "imsmanifest.xml")
ParsedManifestOf(fs) == parseString(readFileSync(fs, ManifestPathOf(fs)).xml)

HasFix(repairs, kind) == \E i \in DOMAIN repairs : repairs[i].fix = kind
CountFix(repairs, kind) == Cardinality({ i \in DOMAIN repairs : repairs[i].fix = kind })

HasHtml(fs) == \E i \in DOMAIN fs : matchesHtml(Last(fs[i].path))

\* C1: for an archive without a manifest file, repairSCORM returns
\* success:true, its repairs list holds the manifest-creation entry, and the
\* manifest of the output archive parses, whatever the launch file is called.
C1_MissingManifestRepaired ==
    (req = "repair" /\ run = "first" /\ RepairDone
        /\ zipIn.readable /\ ManifestPathOf(zipIn.files) = Null)
    => /\ rep.pc = "returned"
       /\ rep.success
       /\ HasFix(rep.repairs, "created manifest")
       /\ outZip.exists
       /\ ManifestPathOf(outZip.files) # Null
       /\ ParsedManifestOf(outZip.files).ok

\* C5: a repair that fails at some step ends by returning a result
\* {success:false, error} to its caller; it does not end by an exception.
C5_RepairFailureReturned ==
    RepairDone => rep.pc = "returned"

\* C6: the output path holds an archive written by an invocation of
\* repairSCORM only once that invocation has returned its result: not while
\* its steps run, and not after it has failed.
C6_NoOutputOnFailure ==
    rep.pc # "returned" => outZip.writer # RepairTmp

\* a repair that failed after its tree was extracted and its manifest read
C6_Witness ==
    /\ rep.pc = "thrown"
    /\ rep.manifestPath # Null
    /\ ~outZip.exists

\* C7: a temporary directory exists only while the invocation that made it
\* runs: when repairSCORM or createUpdatedZip has returned or thrown, its
\* directory is gone.
C7_TmpDirsRemoved ==
    \A d \in DOMAIN tmpDirs : d = RepairTmp /\ rep.pc \in {"parsing", "reparsing"}

\* a repair that threw when the parse of the rebuilt manifest failed, after
\* two steps during which its directory was there
C7_Witness ==
    /\ rep.pc = "thrown"
    /\ rep.manifestXml.rawAttrs
    /\ DOMAIN tmpDirs = {}

\* C8: the second run, on the archive the first run wrote, succeeds with an
\* empty repairs list and reports the launchFile the first run reported.
C8_RepairIdempotent ==
    (run = "second" /\ RepairDone)
    => /\ rep.pc = "returned"
       /\ rep.repairs = << >>
       /\ rep.launchFile = firstRun.launchFile

\* the primary resource of the archive's manifest declares an href that
\* names no file or directory relative to the manifest, and the tree holds an
\* HTML file
BrokenHrefCase ==
    /\ zipIn.readable
    /\ ManifestPathOf(zipIn.files) # Null
    /\ LET p == ParsedManifestOf(zipIn.files)
       IN /\ p.ok
          /\ p.doc.root = "manifest"
          /\ p.doc.resources = "list"
          /\ p.doc.resource[1].attrs
          /\ p.doc.resource[1].href # NoHref
          /\ ~existsSync(zipIn.files,
                         pathJoin(dirname(ManifestPathOf(zipIn.files)),
                                  p.doc.resource[1].href))
    /\ HasHtml(zipIn.files)

\* C9: in that case a successful repair records one "fixed broken launch
\* file" entry, and the manifest of the output archive, parsed again, has as
\* its primary href the path recorded, which leads from the manifest's
\* directory to the file findLaunchFile finds, a file of the output archive.
C9_BrokenHrefRewritten ==
    (rep.pc = "returned" /\ BrokenHrefCase)
    => LET mdir == dirname(ManifestPathOf(outZip.files))
           href == ParsedManifestOf(outZip.files).doc.resource[1].href
       IN /\ CountFix(rep.repairs, "fixed launch file") = 1
          /\ \E i \in DOMAIN rep.repairs :
                /\ rep.repairs[i].fix = "fixed launch file"
                /\ rep.repairs[i].target = href.comps
          /\ ~href.abs
          /\ pathJoin(mdir, href) = findLaunchFile(zipIn.files, << >>)
          /\ isFile(outZip.files, pathJoin(mdir, href))

\* the manifest lies in a subdirectory and the file found at the root
C9_Witness ==
    /\ rep.pc = "returned"
    /\ BrokenHrefCase
    /\ rep.manifestPath = <<"sub", "IMSMANIFEST.XML">>
    /\ rep.launchFile = Href(FALSE, <<"..", "story.html">>)

-----------------------------------------------------------------------------
(* Claims about analyzeSCORM, under SpecAnalyze *)

AnalysisDone == analysis.pc = "done"

\* the manifest entry analyzeSCORM reads, and what the parser makes of it
ManifestEntry == findManifestEntry(zipIn.files)
ManifestParses == ManifestEntry # 0 /\ parseString(zipIn.files[ManifestEntry].xml).ok
ManifestDoc == parseString(zipIn.files[ManifestEntry].xml).doc

\* (a) at least one resource of the manifest is SCO-typed
SomeScoResource ==
    /\ ManifestParses
    /\ \E i \in DOMAIN ManifestDoc.resource :
          ManifestDoc.resource[i].attrs /\ ManifestDoc.resource[i].scormtype = "sco"

\* the script files of the archive, in archive order
ScriptEntries == SelectSeq(zipIn.files, LAMBDA e : endsWithJs(e.path))

\* (b) one of the first 10 script files holds cmi.suspend_data or cmi.location
PersistenceInFirstTen ==
    \E k \in DOMAIN ScriptEntries :
        /\ k <= 10
        /\ ScriptEntries[k].pats \cap {"cmi.suspend_data", "cmi.location"} # {}

\* C2 as stated: for every archive whose manifest parses, resumeCapable is
\* true exactly when (a) or (b).
C2_ResumeWheneverManifestParses ==
    (AnalysisDone /\ zipIn.readable /\ ManifestParses)
    => (analysis.result.resumeCapable <=> (SomeScoResource \/ PersistenceInFirstTen))

\* C2, amended: for every archive analyzeSCORM analyzes with success,
\* resumeCapable is true exactly when (a) or (b); script files after the
\* tenth and the contents of other files do not count.
C2_ResumeClassification ==
    (AnalysisDone /\ analysis.result.success)
    => (analysis.result.resumeCapable <=> (SomeScoResource \/ PersistenceInFirstTen))

\* an analysis with success, not resume-capable, of an archive whose eleventh
\* script and whose text file hold cmi.suspend_data
C2_Witness ==
    /\ AnalysisDone
    /\ analysis.result.success
    /\ ~analysis.result.resumeCapable
    /\ Len(ScriptEntries) > 10
    /\ "cmi.suspend_data" \in ScriptEntries[11].pats
    /\ \E i \in DOMAIN zipIn.files : zipIn.files[i].path = <<"readme.txt">>

\* the archive holds a file named imsmanifest.xml, in any case, at any depth
HasManifestFile ==
    \E i \in DOMAIN zipIn.files :
        toLowerCase(Last(zipIn.files[i].path)) = "imsmanifest.xml"

\* C3: an archive without a file named imsmanifest.xml (compared without
\* regard to case, at any depth) gets a result with success:false; it is
\* never analyzed as if it had a manifest.
C3_MissingManifestFails ==
    (AnalysisDone /\ zipIn.readable /\ ~HasManifestFile)
    => (~analysis.result.success /\ ~analysis.result.hasManifest)

\* the inputs for which analysis fails: an unreadable archive, no manifest
\* entry, a manifest that is not well-formed, a root that is no manifest
AnalysisFailureCase ==
    \/ ~zipIn.readable
    \/ ManifestEntry = 0
    \/ ~ManifestParses
    \/ ManifestDoc.root = "other"

\* C4: analyzeSCORM does not throw: for every input it returns a result with
\* a success field, and each failure comes back as {success:false, error}.
C4_AnalyzeNeverThrows ==
    AnalysisDone
    => /\ ~analysis.result.threw
       /\ analysis.result.success \in BOOLEAN
       /\ analysis.result.success <=> ~AnalysisFailureCase
       /\ ~analysis.result.success => analysis.result.error # ""

\* a manifest that parses and whose root is no manifest element: the
\* TypeError came back as a result
C4_Witness ==
    /\ AnalysisDone
    /\ ManifestParses
    /\ ManifestDoc.root = "other"
    /\ ~analysis.result.threw
    /\ ~analysis.result.success
    /\ analysis.result.error = "TypeError"

-----------------------------------------------------------------------------
(* Claims about the repairs list and the launch file, under SpecRepair *)

\* the step of repairSCORM that records an entry of that kind
FixStep(kind) ==
    CASE kind = "created manifest" -> 1
      [] kind = "rebuilt manifest" -> 2
      [] kind = "added namespace" -> 3
      [] kind = "added metadata" -> 4
      [] kind = "set scormtype" -> 5
      [] kind = "fixed launch file" -> 6
      [] kind = "created resources" -> 6
      [] kind = "injected shim" -> 7
      [] OTHER -> 0

\* C19: in every report a repair returns, the entries stand in the order of
\* the steps (manifest created or rebuilt, namespace, metadata, SCO flag,
\* launch href or resources block, shim), no kind of entry stands twice, the
\* creation and the rebuild of the manifest never stand together, and neither
\* do the creation of the resources block and a fix of the primary resource.
C19_RepairsInStepOrder ==
    rep.pc = "returned"
    => /\ \A i, j \in DOMAIN rep.repairs :
             i < j => FixStep(rep.repairs[i].fix) < FixStep(rep.repairs[j].fix)
       /\ ~(HasFix(rep.repairs, "created manifest")
              /\ HasFix(rep.repairs, "rebuilt manifest"))
       /\ ~(HasFix(rep.repairs, "created resources")
              /\ (HasFix(rep.repairs, "set scormtype")
                    \/ HasFix(rep.repairs, "fixed launch file")))

\* a report of five entries: namespace, metadata, SCO flag, launch href, shim
C19_Witness ==
    /\ rep.pc = "returned"
    /\ Len(rep.repairs) = 5
    /\ rep.repairs[1].fix = "added namespace"
    /\ rep.repairs[5].fix = "injected shim"

\* C20: when the tree of the archive holds an HTML file, a repair that
\* returns reports a launchFile, and it names a file of the output archive
\* relative to the manifest's directory.
C20_LaunchFileWheneverHtml ==
    (rep.pc = "returned" /\ HasHtml(zipIn.files))
    => /\ rep.launchFile # NoHref
       /\ isFile(outZip.files, pathJoin(dirname(rep.manifestPath), rep.launchFile))

-----------------------------------------------------------------------------
(* Claims about the injectors, under SpecInject *)

\* the number of times a snippet's marker stands in a document
CountToken(html, token) == Cardinality({ i \in DOMAIN html : html[i] = token })

HtmlIndexes(fs) == { i \in DOMAIN fs : matchesHtml(Last(fs[i].path)) }

\* C11: once an injector has walked the tree, one time or more, every HTML
\* document of the tree holds the marker of its snippet exactly once, and a
\* further walk of that injector changes no file.
C11_InjectionIdempotent ==
    /\ [](\A i \in HtmlIndexes(tree) :
            /\ inj.shimRuns >= 1 => CountToken(tree[i].html, SHIM_BLOCK) = 1
            /\ inj.trackerRuns >= 1 => CountToken(tree[i].html, TRACKER_BLOCK) = 1)
    /\ [][/\ (inj.shimRuns >= 1 /\ inj'.shimRuns > inj.shimRuns) => tree' = tree
          /\ (inj.trackerRuns >= 1 /\ inj'.trackerRuns > inj.trackerRuns)
                => tree' = tree]_vars

\* two walks of each injector over a tree of two HTML documents, one of
\* them without a head tag
C11_Witness ==
    /\ inj.shimRuns = 2
    /\ inj.trackerRuns = 2
    /\ Cardinality(HtmlIndexes(tree)) = 2
    /\ \E i \in HtmlIndexes(tree) :
          /\ ~includes(tree[i].html, "<head>")
          /\ ~includes(tree[i].html, "</head>")
          /\ CountToken(tree[i].html, SHIM_BLOCK) = 1
          /\ CountToken(tree[i].html, TRACKER_BLOCK) = 1

-----------------------------------------------------------------------------
(* Claims about the batch endpoints, under SpecBatch *)

BatchAnswered == batch.pc \in {"done", "displayed"}

\* the entries of the folder a batch run has to process, in listing order:
\* the archives a.zip and B.ZIP, and no output of an earlier repair
SourceArchives(folder) == SelectSeq(folder, LAMBDA e : e.name \in {"a.zip", "B.ZIP"})

\* whether the processing of an archive by that endpoint fails or throws
ProcessingFails(endpoint, e) ==
    IF endpoint = "analyze-folder"
    THEN e.dangling \/ ~analyzeSCORM(e.zip).success
    ELSE repairSCORM(e.zip).threw

\* C12: while a batch run loops, the results hold one entry for each archive
\* gone through, in listing order and tagged with its file name, with
\* success false where the processing failed or threw; the answer holds one
\* entry for every archive listed.
C12_OneEntryPerArchive ==
    batch.pc \in {"looping", "done", "displayed"}
    => LET listed == SourceArchives(batch.folder)
       IN /\ Len(batch.results) = batch.k - 1
          /\ Len(batch.results) <= Len(listed)
          /\ BatchAnswered => Len(batch.results) = Len(listed)
          /\ \A i \in DOMAIN batch.results :
                /\ batch.results[i].filename = listed[i].name
                /\ batch.results[i].success = ~ProcessingFails(req, listed[i])

\* an answer of two entries: the first archive failed, the second went through
C12_Witness ==
    /\ BatchAnswered
    /\ Len(batch.results) = 2
    /\ ~batch.results[1].success
    /\ batch.results[2].success

\* C13: the summary of a batch run is what the results give: totalFiles
\* their number, failed the number with success false, successfullyAnalyzed
\* the number with success true, resumeCapable the number of successful
\* entries that are resume-capable (analysis) or have a session (repair).
C13_SummaryFromResults ==
    ((req = "analyze-folder" /\ batch.pc = "done") \/ batch.pc = "displayed")
    => LET rs == batch.results
           ok == { i \in DOMAIN rs : rs[i].success }
           capable == { i \in ok : rs[i].resumeCapable \/ rs[i].sessionId # "" }
       IN /\ batch.summary.totalFiles = Len(rs)
          /\ batch.summary.failed = Len(rs) - Cardinality(ok)
          /\ batch.summary.successfullyAnalyzed = Cardinality(ok)
          /\ batch.summary.resumeCapable = Cardinality(capable)
          /\ batch.summary.successfullyAnalyzed + batch.summary.failed
                = batch.summary.totalFiles

\* the summary of an analysis of two archives, one failed, one resume-capable
C13_Witness ==
    /\ req = "analyze-folder"
    /\ batch.pc = "done"
    /\ batch.summary = Summary(2, 1, 1, 1)

\* C14: a batch run lists the entries named a.zip and B.ZIP, in the
\* folder's order, and no entry named a_repaired.zip, C_REPAIRED.ZIP or
\* notes.txt; its results name no other entry; and the name of every archive
\* a repair wrote is a name the list leaves out.
C14_ExactlySourceArchives ==
    batch.pc # "idle"
    => /\ batch.pc # "rejected" => batch.zipFiles = SourceArchives(batch.folder)
       /\ batch.pc = "rejected" => SourceArchives(batch.folder) = << >>
       /\ \A i \in DOMAIN batch.results :
             /\ batch.results[i].filename \in {"a.zip", "B.ZIP"}
             /\ batch.results[i].repairedFile # ""
                   => zipFilesOf(<< [name |-> batch.results[i].repairedFile] >>) = << >>

\* a folder with B.ZIP and C_REPAIRED.ZIP, of which B.ZIP alone was repaired
C14_Witness ==
    /\ BatchAnswered
    /\ req = "repair-folder"
    /\ \E i \in DOMAIN batch.folder : batch.folder[i].name = "C_REPAIRED.ZIP"
    /\ Len(batch.results) = 1
    /\ batch.results[1].filename = "B.ZIP"
    /\ batch.results[1].repairedFile = "B.ZIP_repaired.zip"

-----------------------------------------------------------------------------
(* Claims about player sessions, under SpecSession *)

\* the launch file of a session, as the player's URL names it
LaunchPathIn(fs, launchFile) == pathJoin(dirname(ManifestPathOf(fs)), launchFile)

\* C15: in the session a repair has just made, every HTML file holds the
\* inlined shim, and the launch file holds the shim, as a script reference
\* or inlined, no more than once.
C15_ShimOnceInSession ==
    (resp.op = "repair" /\ resp.success)
    => LET fs == sessions[resp.id]
       IN /\ \A i \in HtmlIndexes(fs) : includes(fs[i].html, SHIM_BLOCK)
          /\ (resp.launchFile # NoHref /\ isFile(fs, LaunchPathIn(fs, resp.launchFile)))
                => LET html == readFileSync(fs, LaunchPathIn(fs, resp.launchFile)).html
                   IN CountToken(html, SHIM_TAG) + CountToken(html, SHIM_BLOCK) <= 1

\* C16: a deletion answers with success, whether the session's directory
\* was there or not, and the directory is not there afterwards.
C16_DestroyIdempotent ==
    [][(resp'.op = "delete" /\ resp'.n # resp.n)
          => (resp'.success /\ resp'.id \notin DOMAIN sessions')]_vars

\* the third request deletes the first session, which a repair made and an
\* earlier deletion has removed already
C16_Witness ==
    /\ resp.op = "delete"
    /\ resp.id = "s1"
    /\ ~resp.existed
    /\ resp.success
    /\ resp.n = 3
    /\ req = "analyze-folder"
    /\ outZip.exists

\* C17: a session directory stays as it is from one step to the next,
\* unless the step is a deletion that names its own id.
C17_SessionKeptUntilDestroyed ==
    [][\A sid \in DOMAIN sessions :
          \/ sid \in DOMAIN sessions' /\ sessions'[sid] = sessions[sid]
          \/ resp'.op = "delete" /\ resp'.id = sid /\ resp'.n # resp.n]_vars

-----------------------------------------------------------------------------
(* Claims about the API shim, under SpecShim *)

\* the step is a call of one of these methods, on either object
IsCall(methods) == shim'.callCount # shim.callCount /\ shim'.call.method \in methods

\* the step posts one message, built from the CMI data as the call leaves it
PostsStatus == shim'.posted = Append(shim.posted, statusOf(shim'.cmiData))

\* C18 as stated: every call of Initialize, GetValue, SetValue, Commit or
\* Finish/Terminate posts one scorm_status message built from the CMI data
\* as it stands after the call.
C18_EveryCallPostsStatus ==
    [][IsCall({"Initialize", "GetValue", "SetValue", "Commit", "Finish"})
          => PostsStatus]_vars

\* C18: every call of Initialize, SetValue, Commit or Finish/Terminate, on
\* either object, posts one scorm_status message built from the CMI data as
\* it stands after the call; a call of GetValue or GetLastError posts none.
C18_WritingCallsPostStatus ==
    [][/\ IsCall({"Initialize", "SetValue", "Commit", "Finish"}) => PostsStatus
       /\ IsCall({"GetValue", "GetLastError"}) => shim'.posted = shim.posted]_vars

\* the second call, SetValue of the 2004 object, has stored suspend data of
\* two characters, and the second message carries that length
C18_Witness ==
    /\ shim.call = Call("API_1484_11", "SetValue", "cmi.suspend_data")
    /\ Len(shim.posted) = 2
    /\ shim.posted[1].suspendDataLen = 0
    /\ shim.posted[2].suspendDataLen = 2


-----------------------------------------------------------------------------
(* Claims about Fix 4, Fix 5 and Fix 6, under SpecRepair *)

\* the opening and the closing tags of a head element, in the spellings of
\* the documents of the model
OpenHeadTags == { "<head>", "<HEAD>", "<head lang=en>" }
CloseHeadTags == { "</head>", "</HEAD>" }

FirstOf(html, tags) ==
    CHOOSE i \in DOMAIN html : html[i] \in tags /\ \A j \in 1..(i - 1) : html[j] \notin tags

\* the document with block put in after its first k tokens
InsertedAfter(html, k, block) ==
    SubSeq(html, 1, k) \o << block >> \o SubSeq(html, k + 1, Len(html))

\* block right after the opening head tag, else right before the closing
\* one, else at the start, whatever the spelling of the tags
PlacedAtHead(html, block) ==
    IF \E i \in DOMAIN html : html[i] \in OpenHeadTags
    THEN InsertedAfter(html, FirstOf(html, OpenHeadTags), block)
    ELSE IF \E i \in DOMAIN html : html[i] \in CloseHeadTags
    THEN InsertedAfter(html, FirstOf(html, CloseHeadTags) - 1, block)
    ELSE << block >> \o html

\* the launch file of the report, as a path of the tree
ReportedLaunchPath == pathJoin(dirname(rep.manifestPath), rep.launchFile)

\* a repair of the caller's archive has returned and reports an HTML launch
\* file the archive holds
LaunchHtmlRepaired ==
    /\ req = "repair" /\ run = "first" /\ rep.pc = "returned"
    /\ rep.launchFile # NoHref
    /\ isFile(zipIn.files, ReportedLaunchPath)
    /\ matchesHtml(Last(ReportedLaunchPath))

\* C21: a launch file without the marker comes out with one script reference
\* right after its opening head tag, in any spelling, else right before its
\* closing head tag, else at its start, and one entry is recorded; a launch
\* file with the marker comes out as it was, and no entry is recorded.
C21_ShimReferencePlaced ==
    LaunchHtmlRepaired
    => LET before == readFileSync(zipIn.files, ReportedLaunchPath).html
           after == readFileSync(outZip.files, ReportedLaunchPath).html
       IN IF includes(before, SHIM_TAG)
          THEN after = before /\ CountFix(rep.repairs, "injected shim") = 0
          ELSE /\ after = PlacedAtHead(before, SHIM_TAG)
               /\ CountFix(rep.repairs, "injected shim") = 1

\* the manifest of the caller's archive parses and its root is a manifest
\* element with content
InputManifestRead ==
    /\ run = "first"
    /\ zipIn.readable
    /\ ManifestPathOf(zipIn.files) # Null
    /\ ParsedManifestOf(zipIn.files).ok
    /\ ParsedManifestOf(zipIn.files).doc.root = "manifest"

InputDoc == ParsedManifestOf(zipIn.files).doc

\* the manifest repairSCORM wrote into the output archive
OutputDoc == parseString(readFileSync(outZip.files, rep.manifestPath).xml).doc

\* C22: after a repair that returns, the manifest of the output archive has
\* a metadata block with a schema identity and a schema version; when the
\* input manifest lacked either, the metadata entry is recorded.
C22_MetadataComplete ==
    (req = "repair" /\ rep.pc = "returned")
    => /\ OutputDoc.metadata = "full"
       /\ (InputManifestRead /\ InputDoc.metadata # "full")
             => CountFix(rep.repairs, "added metadata") = 1

\* C23: after a repair that returns, of an archive whose manifest has a
\* resources block with a resource, the first resource carries the SCO-type
\* flag; when the input's first resource lacked it, with attributes or
\* without any, the entry is recorded once.
C23_PrimaryCarriesScoFlag ==
    (req = "repair" /\ rep.pc = "returned" /\ InputManifestRead
        /\ InputDoc.resources = "list" /\ Len(InputDoc.resource) >= 1)
    => /\ OutputDoc.resources = "list"
       /\ OutputDoc.resource[1].scormtype # ""
       /\ InputDoc.resource[1].scormtype = ""
             => CountFix(rep.repairs, "set scormtype") = 1

-----------------------------------------------------------------------------
(* C24, under SpecAnalyze *)

\* one of the first 10 script files holds one of these substrings
InFirstTen(patterns) ==
    \E k \in DOMAIN ScriptEntries : k <= 10 /\ ScriptEntries[k].pats \cap patterns # {}

\* how often the details of the report name a finding
TimesReported(label) ==
    LET d == analysis.result.details
    IN Cardinality({ <<i, j>> \in (DOMAIN d) \X (1..(4 * SCAN_LIMIT)) :
                        j \in DOMAIN d[i].calls /\ d[i].calls[j] = label })

\* C24: when one of the first 10 script files holds a lesson-status or an
\* LMS-initialization pattern, the details of the report name that finding,
\* each finding once, whether or not a suspend-data or location pattern is
\* there as well, and resumeCapable is what it is without the finding.
C24_DiagnosticFindingsReported ==
    (AnalysisDone /\ analysis.result.success)
    => /\ InFirstTen({"cmi.core.lesson_status", "cmi.completion_status"})
             => TimesReported("lesson_status") = 1
       /\ InFirstTen({"API.LMSInitialize", "API_1484_11.Initialize"})
             => TimesReported("LMS_Initialize") = 1
       /\ TimesReported("lesson_status") <= 1
       /\ TimesReported("LMS_Initialize") <= 1
       /\ analysis.result.resumeCapable <=> (SomeScoResource \/ PersistenceInFirstTen)

-----------------------------------------------------------------------------
(* C25, under SpecSession *)

\* no file of the directory has been written by more than one operation
WrittenOnce(dir) == \A n \in DOMAIN dir : dir[n] <= 1

\* the step is the handling of a destroy request
DestroyStep == resp'.n # resp.n /\ resp'.op = "delete"

\* the step leaves every session directory that is there as it is
SessionsKept == \A id \in DOMAIN sessions : id \in DOMAIN sessions' /\ sessions'[id] = sessions[id]

\* C25: whatever the order of the repair, upload and batch requests, no file
\* of repaired/ or updated/ is written by two operations, also when two
\* requests carry archives of the same name, and no operation other than a
\* destroy request changes a session directory that is there.
C25_AreasAppendOnly ==
    /\ [](WrittenOnce(store.repaired) /\ WrittenOnce(store.updated))
    /\ [][~DestroyStep => SessionsKept]_vars

-----------------------------------------------------------------------------
(* Claims about the shim instances of a page, under SpecPage *)

\* what the content has set in the session of the page, through whichever
\* member, and the elements among them whose value is a string
SetInSession == page.set[page.session]
StringsSet == { e \in DOMAIN SetInSession : SetInSession[e] \notin {Undefined, JsNaN} }

\* the last call was a call of that method of some member
LastCall(methods) == page.call.method \in methods /\ page.call.api \in ApiMembers

\* C26: with one instance of the shim in the page or more, the members the
\* content can reach work on the same CMI data: GetValue through any member
\* returns the value set last through any member, localStorage holds every
\* value set, and the message a call posts is built from the values set.
C26_MembersShareCmi ==
    /\ (LastCall({"GetValue"}) /\ page.call.element \in StringsSet)
          => page.returned = SetInSession[page.call.element]
    /\ \A e \in StringsSet :
          /\ e \in DOMAIN page.localStorage[page.session]
          /\ page.localStorage[page.session][e] = SetInSession[e]
    /\ LastCall({"Initialize", "SetValue", "Commit"})
          => page.status = statusOf(SetInSession)

\* the instance a member of the last call belongs to
CalledInstance == page.instances[boundTo(page, page.call.api)]

\* every call answers 'true' with error code '0', initialized or not
CallsSucceed ==
    /\ \A i \in 1..Len(page.instances) : page.instances[i].lastError = "0"
    /\ LastCall({"Initialize", "SetValue", "Commit"}) => page.returned = "true"
    /\ LastCall({"GetLastError"}) => page.returned = "0"

\* an element that was never set in the session of the page reads as '',
\* whatever other sessions have stored
UnsetReadsEmpty ==
    (LastCall({"GetValue"}) /\ page.call.element \notin DOMAIN SetInSession)
        => page.returned = ""

C27_OtherSessionReadsEmpty ==
    /\ page.session = "s2"
    /\ LastCall({"GetValue"})
    /\ page.call.element \in DOMAIN page.localStorage["s1"]
    /\ page.returned = ""

-----------------------------------------------------------------------------
(* Claims about what a destroy request removes, under SpecSession *)

\* the step leaves the directories of the sessions other than the named one
\* as they are
OtherSessionsKept ==
    \A sid \in DOMAIN sessions \ {resp'.id} :
        sid \in DOMAIN sessions' /\ sessions'[sid] = sessions[sid]

\* the step leaves repaired/, updated/ and the application's files as they are
AreasKept == store' = store /\ outZip' = outZip /\ updatedZip' = updatedZip

\* C28: a destroy request, whatever it gives as sessionId ('.' and '..'
\* included), removes nothing outside the directory of that one session:
\* the other sessions, repaired/, updated/ and the application's own files
\* are left as they are.
C28_DestroyRemovesOneSession ==
    [][DestroyStep => (OtherSessionsKept /\ AreasKept)]_vars

-----------------------------------------------------------------------------
(* Claims about the analyzer and the repair engine on one archive, under    *)
(* SpecAnalyze                                                              *)

\* analyzeSCORM has answered with the missing-manifest failure
MissingManifestReported ==
    /\ ~analysis.result.success
    /\ analysis.result.error = "No imsmanifest.xml found in the package"

\* C29: for every archive, analyzeSCORM reports the missing-manifest failure
\* exactly when repairSCORM on the same archive records the manifest-creation
\* entry, and when both find a manifest they read the same file.
C29_ManifestPresenceAgreed ==
    (AnalysisDone /\ zipIn.readable)
    => /\ MissingManifestReported
             <=> HasFix(repairSCORM(zipIn).repairs, "created manifest")
       /\ (ManifestEntry # 0 /\ ManifestPathOf(zipIn.files) # Null)
             => zipIn.files[ManifestEntry].path = ManifestPathOf(zipIn.files)

-----------------------------------------------------------------------------
(* Claims about the event tracker, under SpecTracker *)

\* C30: however many polling rounds run, the tracker wraps each API object
\* at most once, polling stops after 20 rounds, and a call of a method of an
\* object the tracker has wrapped, in either API version, emits exactly one
\* scorm_api_call event and returns what the original method returned.
C30_OneEventPerCall ==
    /\ \A o \in DOMAIN tracker.wrappers : Len(tracker.wrappers[o]) <= 1
    /\ tracker.pollCount <= POLL_LIMIT
    /\ tracker.pollCount = POLL_LIMIT => ~tracker.polling
    /\ (tracker.calls > 0 /\ tracker.tracked)
          => /\ Len(tracker.events) = 1
             /\ tracker.returned = page.returned
====
